---- MODULE Spec2Model ----
(***************************************************************************)
(* Model of the UnrealImGui context proxy (FImGuiContextProxy), the ImGui  *)
(* library state it drives (the global current-context pointer and the     *)
(* per-context frame state) and the draw delegates it broadcasts.          *)
(*                                                                         *)
(* Every proxy method is an operator from a world record to a world        *)
(* record, so that a draw callback which calls back into a proxy (Draw or  *)
(* Tick, on the same or on another proxy) is evaluated inside the handler  *)
(* that fired it, exactly as the C++ call stack does.  The actions of the  *)
(* specifications apply one public operation to the current world.         *)
(***************************************************************************)
EXTENDS Integers, Sequences, FiniteSets, TLC

VARIABLES
    GFrameNumber,          \* host frame counter (engine global)
    GImGui,                \* ImGui's global current-context pointer
    DebugDrawOnWorldTick,  \* CVars::DebugDrawOnWorldTick
    SharedDrawEvent,       \* the multi-context draw delegate (listeners in order)
    Proxies,               \* proxy slot -> fields of the FImGuiContextProxy there
    Contexts,              \* ImGui context id -> library-side state
    NextContext,           \* next context id ImGui::CreateContext hands out
    ModuleManager,         \* whether the module's manager exists (static ModuleManager)
    Handles,               \* the FImGuiDelegateHandles client code holds
    NativeLists,           \* contents of the command lists ImGui::Render produces next
    Inputs,                \* input state id -> the FImGuiInputState of a widget
    trace,                 \* history: library calls and callbacks of the last operation
    op,                    \* history: the last operation and the proxy fields before it
    scenario,              \* history: per slot, the "one callback, N advancing Ticks" run
    nameA, nameB,          \* two proxy names (for the name -> settings path mapping)
    iniA, iniB,            \* the settings paths computed for them
    paint,                 \* a captured draw list and the widget's buffers painting it
    InputEnabled,          \* CVars::InputEnabled
    ShowDemo,              \* CVars::ShowDemo
    DrawMouseCursor,       \* CVars::DrawMouseCursor
    toggled,               \* history: the last two calls of the module's toggle interface
    Registry,              \* the context manager's scope -> index map, and for each
                           \* handle the scope and the context it was registered on
    Widgets                \* input state id -> the SImGuiWidget that owns it

vars == <<GFrameNumber, GImGui, DebugDrawOnWorldTick, SharedDrawEvent, Proxies,
          Contexts, NextContext, ModuleManager, Handles, NativeLists, Inputs,
          trace, op, scenario, nameA, nameB, iniA, iniB, paint,
          InputEnabled, ShowDemo, DrawMouseCursor, toggled, Registry, Widgets>>

\* The program state an operation works on, and the history kept about it.
worldVars == <<GFrameNumber, GImGui, DebugDrawOnWorldTick, SharedDrawEvent, Proxies,
               Contexts, NextContext, ModuleManager, Handles, NativeLists, Inputs,
               trace, op, scenario>>

nameVars == <<nameA, nameB, iniA, iniB>>

\* The console variables of the module's toggles and the widgets.
hostVars == <<InputEnabled, ShowDemo, DrawMouseCursor, toggled, Registry, Widgets>>

-----------------------------------------------------------------------------
(* Bounds of the model. *)

\* The host frame counter runs from 0 to MaxFrame.
MaxFrame == 2
\* At most this many listeners are registered on all draw delegates together.
MaxCallbacks == 2
\* ImGui::CreateContext is called at most this many times.
MaxContexts == 3
\* The input state has this many keys and mouse buttons, and accumulates a mouse
\* wheel delta of at most MaxWheel.
NumKeys == 2
NumButtons == 1
MaxWheel == 2
\* Proxy names are strings of at most this many characters.
MaxNameLen == 2
\* ImGui::Render produces at most this many command lists.
MaxLists == 2
\* A draw list has at most this many draw commands and this many vertices.
MaxCommands == 2
MaxVerts == 2

-----------------------------------------------------------------------------
(* Values. *)

\* The two proxy slots (objects) of the model and the other one of each.
ProxyIds == {"A", "B"}
Other(p) == IF p = "A" THEN "B" ELSE "A"

\* &GImDefaultContext, the library's static default context.
DefaultContext == 0
\* A null ImGuiContext pointer (an empty TUniquePtr, ImGui::SetCurrentContext(NULL)).
NullContext == -1
ContextIds == 1..MaxContexts

\* A null FImGuiInputState pointer, and the input states widgets own.
NoInputState == 0
InputStates == {1, 2}

\* Values of the console variable ImGui.Debug.DrawOnWorldTick.
CVarValues == {0, 1}

\* The listeners that can be bound to a draw delegate, by what they do when invoked:
\* draw only, call Draw() or Tick() on the proxy that is drawing, Tick the other proxy.
Listeners == {"Flag", "DrawSelf", "TickSelf", "TickOther", "Widget",
              "OnDebugDraw1", "OnDebugDraw2"}
\* Those that call back into the drawing proxy, and those that reach the other one.
SelfListeners == {"Flag", "DrawSelf", "TickSelf"}
CrossListeners == {"Flag", "TickOther"}

Range(s) == {s[i] : i \in 1..Len(s)}
Remove(s, x) == SelectSeq(s, LAMBDA y : y # x)

-----------------------------------------------------------------------------
(* The name -> settings path mapping. Characters are code units (integers). *)

Slash == 47
Backslash == 92
Dot == 46
QuestionMark == 63
MaxAnsi == 127
\* The characters names are drawn from: 'a', '/', and two non-ANSI letters.
NameChars == {97, Slash, 233, 252}
\* ".ini"
IniExt == <<Dot, 105, 110, 105>>
\* FPaths::ProjectSavedDir() / "ImGui": "S/ImGui"
SaveDirectory == <<83, Slash, 73, 109, 71, 117, 105>>

\* FPaths::Combine(A, B): FString::PathAppend puts a '/' between the parts unless
\* the left part ends with a separator or the right part starts with '/'.
Combine(a, b) ==
    IF Len(b) = 0
    THEN IF Len(a) > 0 /\ a[Len(a)] # Slash /\ a[Len(a)] # Backslash
         THEN a \o <<Slash>> ELSE a
    ELSE IF Len(a) > 0 /\ a[Len(a)] # Slash /\ a[Len(a)] # Backslash /\ b[1] # Slash
         THEN a \o <<Slash>> \o b
         ELSE a \o b

GetIniFile(Name) == Combine(SaveDirectory, Name \o IniExt)

\* TCHAR_TO_ANSI: a code unit outside 0..127 has no ANSI character and becomes '?'.
TCharToAnsi(s) == [i \in 1..Len(s) |-> IF s[i] <= MaxAnsi THEN s[i] ELSE QuestionMark]

\* The IniFilename member as the constructor initialises it.
IniFilenameOf(Name) == TCharToAnsi(GetIniFile(Name))

\* The names the proxy slots are constructed with.
NameOf(p) == IF p = "A" THEN <<97>> ELSE <<97, 97>>

-----------------------------------------------------------------------------
(* FImGuiInputState: the accumulator a widget fills from its input events. *)

\* The key and mouse button indices, and the values input events carry.
KeyIndices == 0..(NumKeys - 1)
MouseIndices == 0..(NumButtons - 1)
MousePositions == {<<0, 0>>, <<100, 200>>}
ModifierValues == {<<FALSE, FALSE, FALSE>>, <<TRUE, FALSE, TRUE>>}

\* Utilities::TArrayIndexRange: the half-open range <<Begin, End>> of changed indices.
EmptyRange == <<0, 0>>
IsEmpty(r) == r[1] = r[2]
AddPosition(r, i) ==
    IF IsEmpty(r) THEN <<i, i + 1>>
    ELSE <<IF i < r[1] THEN i ELSE r[1], IF i + 1 > r[2] THEN i + 1 ELSE r[2]>>
InRange(r, i) == r[1] <= i /\ i < r[2]

\* A new input state. touchedKeys, touchedButtons, clean and run are history: the
\* indices set since the last ClearUpdateState, whether nothing was accumulated
\* since then, and the progress of "keys down and a wheel delta accumulated (0),
\* consumed by a Tick (1), cleared (2), consumed by the next Tick (3)" with the
\* keys of that run.
NoRun == [keys |-> {}, ph |-> 0]
NewInputState ==
    [MousePosition |-> <<0, 0>>, MouseWheelDelta |-> 0, bHasMousePointer |-> FALSE,
     KeysDown |-> [i \in KeyIndices |-> FALSE],
     MouseButtonsDown |-> [i \in MouseIndices |-> FALSE],
     bIsControlDown |-> FALSE, bIsShiftDown |-> FALSE, bIsAltDown |-> FALSE,
     KeysUpdateRange |-> EmptyRange, MouseButtonsUpdateRange |-> EmptyRange,
     touchedKeys |-> {}, touchedButtons |-> {}, clean |-> FALSE, run |-> NoRun]

\* An accumulation ends a run that a Tick has consumed already.
Accumulated(is) == [is EXCEPT !.clean = FALSE, !.run = IF @.ph > 0 THEN NoRun ELSE @]

\* FImGuiInputState::SetKeyDown
SetKeyDown(is, i, bIsDown) ==
    [Accumulated(is) EXCEPT !.KeysDown[i] = bIsDown,
                            !.KeysUpdateRange = AddPosition(@, i),
                            !.touchedKeys = @ \cup {i}]

\* FImGuiInputState::SetMouseDown
SetMouseDown(is, i, bIsDown) ==
    [Accumulated(is) EXCEPT !.MouseButtonsDown[i] = bIsDown,
                            !.MouseButtonsUpdateRange = AddPosition(@, i),
                            !.touchedButtons = @ \cup {i}]

\* FImGuiInputState::AddMouseWheelDelta
AddMouseWheelDelta(is, DeltaValue) ==
    [Accumulated(is) EXCEPT !.MouseWheelDelta = @ + DeltaValue]

\* FImGuiInputState::SetMousePosition
SetMousePosition(is, Position) == [Accumulated(is) EXCEPT !.MousePosition = Position]

\* FImGuiInputState::SetMousePointer
SetMousePointer(is, bInHasMousePointer) ==
    [Accumulated(is) EXCEPT !.bHasMousePointer = bInHasMousePointer]

\* FImGuiInputState::SetControlDown, SetShiftDown and SetAltDown
SetControlDown(is, bIsDown) == [Accumulated(is) EXCEPT !.bIsControlDown = bIsDown]
SetShiftDown(is, bIsDown) == [Accumulated(is) EXCEPT !.bIsShiftDown = bIsDown]
SetAltDown(is, bIsDown) == [Accumulated(is) EXCEPT !.bIsAltDown = bIsDown]

\* SImGuiWidget::CopyModifierKeys: the three modifiers of one input event.
CopyModifierKeys(is, m) == SetAltDown(SetShiftDown(SetControlDown(is, m[1]), m[2]), m[3])

\* FImGuiInputState::ClearUpdateState. A run whose accumulations were not consumed
\* yet ends; one that a Tick consumed goes on.
ClearUpdateState(is) ==
    [is EXCEPT !.MouseWheelDelta = 0,
               !.KeysUpdateRange = EmptyRange,
               !.MouseButtonsUpdateRange = EmptyRange,
               !.touchedKeys = {}, !.touchedButtons = {}, !.clean = TRUE,
               !.run = IF @.ph = 0 THEN NoRun ELSE [@ EXCEPT !.ph = 2]]

\* Copy(Src, Dst, Range): the elements of the range are copied.
CopyRange(Src, Dst, r) == [i \in DOMAIN Dst |-> IF InRange(r, i) THEN Src[i] ELSE Dst[i]]

-----------------------------------------------------------------------------
(* Proxy objects and library contexts. *)

\* The member initialisers of FImGuiContextProxy; state is the lifetime of the
\* object in the slot: "absent", "live", or "moved" (moved-from, not yet destroyed).
\* calls is history: how often each listener was invoked in the current frame.
AbsentProxy ==
    [state |-> "absent", Context |-> NullContext,
     bIsFrameStarted |-> FALSE, bIsDrawCalled |-> FALSE, LastFrameNumber |-> 0,
     DrawEvent |-> <<>>, HasSharedDrawEvent |-> FALSE, InputState |-> NoInputState,
     DrawLists |-> <<>>, Name |-> <<>>, IniFilename |-> <<>>,
     bHasActiveItem |-> FALSE, MouseCursor |-> "None",
     calls |-> [l \in Listeners |-> 0], lastTick |-> -1]

\* Library-side state of a context: alive, between NewFrame and Render, the ini
\* file installed in its IO, the input state last copied into its IO, the input
\* fields of its IO, the mouse cursor the frame asks for, whether an item is
\* active and whether the active item was submitted in the current frame.
FreshContext ==
    [alive |-> FALSE, inFrame |-> FALSE, IniFilename |-> <<>>, io |-> NoInputState,
     MouseCursor |-> "Arrow", ActiveId |-> FALSE, ActiveIdIsAlive |-> FALSE,
     MouseDrawCursor |-> FALSE, MousePos |-> <<-1, -1>>, MouseWheel |-> 0,
     KeyCtrl |-> FALSE, KeyShift |-> FALSE, KeyAlt |-> FALSE, KeySuper |-> FALSE,
     KeysDown |-> [i \in KeyIndices |-> FALSE],
     MouseDown |-> [i \in MouseIndices |-> FALSE]]

World ==
    [G |-> GFrameNumber, cur |-> GImGui, cvar |-> DebugDrawOnWorldTick,
     shared |-> SharedDrawEvent, px |-> Proxies, cx |-> Contexts,
     next |-> NextContext, mm |-> ModuleManager, hs |-> Handles,
     dd |-> NativeLists, inp |-> Inputs, tr |-> <<>>, nd |-> 0]

\* One entry of the history of an operation.
Ev(k, p, c) == [k |-> k, p |-> p, c |-> c, x |-> "", l |-> "", d |-> 0, n |-> 0,
                b |-> FALSE, s |-> FALSE, path |-> <<>>]
Log(w, e) == [w EXCEPT !.tr = Append(@, e)]

\* ImGui::SetCurrentContext
SetCurrentContext(w, c) == [w EXCEPT !.cur = c]

\* FImGuiContextProxy::SetAsCurrent
SetAsCurrent(w, p) ==
    Log(SetCurrentContext(w, w.px[p].Context), Ev("SetCurrent", p, w.px[p].Context))

CopyInput_AllKeys(w, p) ==
    LET InputState == w.inp[w.px[p].InputState]
        IO == w.cx[w.cur]
        IO2 == [IO EXCEPT !.io = w.px[p].InputState,
                          !.MouseDrawCursor = InputState.bHasMousePointer,
                          !.MousePos = InputState.MousePosition,
                          !.MouseWheel = @ + InputState.MouseWheelDelta,
                          !.KeyCtrl = InputState.bIsControlDown,
                          !.KeyShift = InputState.bIsShiftDown,
                          !.KeyAlt = InputState.bIsAltDown,
                          !.KeySuper = FALSE,
                          !.KeysDown = InputState.KeysDown,
                          !.MouseDown = InputState.MouseButtonsDown]
    IN  Log([w EXCEPT !.cx[w.cur] = IO2],
            [Ev("CopyInput", p, w.cur) EXCEPT
                !.n = w.px[p].InputState,
                !.b = (IO2.KeysDown = IO.KeysDown /\ IO2.MouseDown = IO.MouseDown)])

CopyInput_NoRange(w, p) ==
    LET InputState == w.inp[w.px[p].InputState]
        IO == w.cx[w.cur]
        IO2 == [IO EXCEPT !.io = w.px[p].InputState,
                          !.MouseDrawCursor = InputState.bHasMousePointer,
                          !.MousePos = InputState.MousePosition,
                          !.MouseWheel = @ + InputState.MouseWheelDelta,
                          !.KeyCtrl = InputState.bIsControlDown,
                          !.KeyShift = InputState.bIsShiftDown,
                          !.KeyAlt = InputState.bIsAltDown,
                          !.KeySuper = FALSE]
    IN  Log([w EXCEPT !.cx[w.cur] = IO2],
            [Ev("CopyInput", p, w.cur) EXCEPT
                !.n = w.px[p].InputState,
                !.b = (IO2.KeysDown = IO.KeysDown /\ IO2.MouseDown = IO.MouseDown)])

\* ImGuiInterops::CopyInput(ImGui::GetIO(), *InputState): into the IO of the current
\* context. The entry records the input state and whether the key and mouse button
\* entries of the IO stayed as they were. The character queue is left out.
CopyInput(w, p) ==
    LET InputState == w.inp[w.px[p].InputState]
        IO == w.cx[w.cur]
        IO2 == [IO EXCEPT !.io = w.px[p].InputState,
                          !.MouseDrawCursor = InputState.bHasMousePointer,
                          !.MousePos = InputState.MousePosition,
                          !.MouseWheel = @ + InputState.MouseWheelDelta,
                          !.KeyCtrl = InputState.bIsControlDown,
                          !.KeyShift = InputState.bIsShiftDown,
                          !.KeyAlt = InputState.bIsAltDown,
                          !.KeySuper = FALSE,
                          !.KeysDown =
                              IF ~IsEmpty(InputState.KeysUpdateRange)
                              THEN CopyRange(InputState.KeysDown, @,
                                             InputState.KeysUpdateRange)
                              ELSE @,
                          !.MouseDown =
                              IF ~IsEmpty(InputState.MouseButtonsUpdateRange)
                              THEN CopyRange(InputState.MouseButtonsDown, @,
                                             InputState.MouseButtonsUpdateRange)
                              ELSE @]
    IN  Log([w EXCEPT !.cx[w.cur] = IO2],
            [Ev("CopyInput", p, w.cur) EXCEPT
                !.n = w.px[p].InputState,
                !.b = (IO2.KeysDown = IO.KeysDown /\ IO2.MouseDown = IO.MouseDown)])

\* ImGui::NewFrame: on the current context. The mouse cursor is set back to the
\* arrow, and an active item that the last frame did not submit is cleared.
NewFrame(w, p) ==
    Log([w EXCEPT !.cx[w.cur].inFrame = TRUE,
                  !.cx[w.cur].MouseCursor = "Arrow",
                  !.cx[w.cur].ActiveId = @ /\ w.cx[w.cur].ActiveIdIsAlive,
                  !.cx[w.cur].ActiveIdIsAlive = FALSE],
        Ev("NewFrame", p, w.cur))

\* ImGuiInterops::ToSlateMouseCursor
ToSlateMouseCursor(MouseCursor) ==
    CASE MouseCursor = "Arrow" -> "Default"
      [] MouseCursor = "TextInput" -> "TextEditBeam"
      [] MouseCursor = "Move" -> "CardinalCross"
      [] MouseCursor = "ResizeNS" -> "ResizeUpDown"
      [] MouseCursor = "ResizeEW" -> "ResizeLeftRight"
      [] MouseCursor = "ResizeNESW" -> "ResizeSouthWest"
      [] MouseCursor = "ResizeNWSE" -> "ResizeSouthEast"
      [] MouseCursor = "GrabOpen" -> "GrabHand"
      [] MouseCursor = "GrabClosed" -> "GrabHandClosed"
      [] MouseCursor = "Hand" -> "Hand"
      [] OTHER -> "None"

\* A callback draws a text field that has the focus: on the current context.
InputText(w) ==
    IF w.cur \in ContextIds
    THEN [w EXCEPT !.cx[w.cur].MouseCursor = "TextInput",
                   !.cx[w.cur].ActiveId = TRUE,
                   !.cx[w.cur].ActiveIdIsAlive = TRUE]
    ELSE w

Render_KeepWheel(w, p) ==
    Log([w EXCEPT !.cx[w.cur].inFrame = FALSE],
        [Ev("Render", p, w.cur) EXCEPT !.path = w.dd])

\* ImGui::Render: on the current context. It ends the library frame, which clears
\* the mouse wheel of the IO; the entry records the contents of the command lists.
Render(w, p) ==
    Log([w EXCEPT !.cx[w.cur].inFrame = FALSE, !.cx[w.cur].MouseWheel = 0],
        [Ev("Render", p, w.cur) EXCEPT !.path = w.dd])

\* ImGui::GetDrawData: the command lists of the current context.
GetDrawData(w) == [i \in 1..Len(w.dd) |-> [c |-> w.cur, data |-> w.dd[i]]]

\* The listeners whose invocations a frame of proxy p counts.
Registered(w, p) ==
    Range(w.px[p].DrawEvent) \cup (IF w.px[p].HasSharedDrawEvent THEN Range(w.shared) ELSE {})

RECURSIVE Draw(_, _), Tick(_, _), Broadcast(_, _, _, _, _, _), Invoke(_, _, _)

-----------------------------------------------------------------------------
(* FImGuiContextProxy::BeginFrame *)

BeginFrame_NoGuard(w, p) ==
    LET w1 == IF w.px[p].InputState # NoInputState THEN CopyInput(w, p) ELSE w
        w2 == NewFrame(w1, p)
    IN  [w2 EXCEPT !.px[p].bIsFrameStarted = TRUE,
                   !.px[p].bIsDrawCalled = FALSE,
                   !.px[p].calls = [l \in Listeners |-> 0]]

BeginFrame_InputAfterNewFrame(w, p) ==
    IF ~w.px[p].bIsFrameStarted
    THEN LET w1 == NewFrame(w, p)
             w2 == IF w.px[p].InputState # NoInputState THEN CopyInput(w1, p) ELSE w1
         IN  [w2 EXCEPT !.px[p].bIsFrameStarted = TRUE,
                        !.px[p].bIsDrawCalled = FALSE,
                        !.px[p].calls = [l \in Listeners |-> 0]]
    ELSE w

BeginFrame(w, p) ==
    IF ~w.px[p].bIsFrameStarted
    THEN LET w1 == IF w.px[p].InputState # NoInputState THEN CopyInput(w, p) ELSE w
             w2 == NewFrame(w1, p)
         IN  [w2 EXCEPT !.px[p].bIsFrameStarted = TRUE,
                        !.px[p].bIsDrawCalled = FALSE,
                        !.px[p].calls = [l \in Listeners |-> 0]]
    ELSE w

-----------------------------------------------------------------------------
(* FImGuiContextProxy::UpdateDrawData and EndFrame *)

\* A default-constructed FImGuiDrawList.
EmptyDrawList == [c |-> NullContext, data |-> 0]

\* TArray::SetNum(n, false): the first n elements, new ones default-constructed.
SetNum(a, n) == [i \in 1..n |-> IF i <= Len(a) THEN a[i] ELSE EmptyDrawList]

\* FImGuiDrawList::TransferDrawData: the list takes over the buffers of the source.
TransferDrawData(dst, src) == src

UpdateDrawData_KeepWhenEmpty(w, p) ==
    LET DrawData == GetDrawData(w)
        sized == SetNum(w.px[p].DrawLists, Len(DrawData))
        lists == IF Len(DrawData) > 0
                 THEN [i \in 1..Len(DrawData) |-> TransferDrawData(sized[i], DrawData[i])]
                 ELSE w.px[p].DrawLists
    IN  Log([w EXCEPT !.px[p].DrawLists = lists], Ev("Capture", p, w.cur))

\* The draw data of the current context replace the proxy's draw lists; a draw
\* list holds the context it was rendered from and the contents of its buffers.
UpdateDrawData(w, p) ==
    LET DrawData == GetDrawData(w)
        sized == SetNum(w.px[p].DrawLists, Len(DrawData))
        lists == IF Len(DrawData) > 0
                 THEN [i \in 1..Len(DrawData) |-> TransferDrawData(sized[i], DrawData[i])]
                 ELSE <<>>
    IN  Log([w EXCEPT !.px[p].DrawLists = lists], Ev("Capture", p, w.cur))

\* The "EndFrame" entry records whether every registered listener (b), and every
\* listener of the shared delegate (s), was invoked exactly once in the frame that ends.
EndFrame(w, p) ==
    IF w.px[p].bIsFrameStarted
    THEN LET w1 == UpdateDrawData(Render(w, p), p)
             once == \A l \in Registered(w, p) : w.px[p].calls[l] = 1
             sharedOnce == \A l \in Registered(w, p) \cap Range(w.shared) :
                               w.px[p].calls[l] = 1
         IN  Log([w1 EXCEPT !.px[p].bIsFrameStarted = FALSE],
                 [Ev("EndFrame", p, w1.cur) EXCEPT !.b = once, !.s = sharedOnce])
    ELSE w

-----------------------------------------------------------------------------
(* Draw delegates: FSimpleMulticastDelegate::Broadcast and the bound listeners *)

Invoke(w, p, l) ==
    CASE l = "Flag" -> w
      [] l = "DrawSelf" -> Draw(w, p)
      [] l = "TickSelf" -> Tick(w, p)
      [] l = "TickOther" ->
            IF w.px[Other(p)].state = "live" THEN Tick(w, Other(p)) ELSE w
      [] l = "Widget" -> InputText(w)
      [] l \in {"OnDebugDraw1", "OnDebugDraw2"} -> w

\* Invoke list[i..] for the Draw numbered d of proxy p; which is "own" or "shared".
\* The entry records whether every live proxy has a started frame when the
\* listener starts.
Broadcast(w, p, list, which, d, i) ==
    IF i > Len(list) THEN w
    ELSE LET l == list[i]
             started == \A q \in ProxyIds :
                            w.px[q].state = "live" => w.px[q].bIsFrameStarted
             w1 == Log([w EXCEPT !.px[p].calls[l] = @ + 1],
                       [Ev("Callback", p, w.cur) EXCEPT !.x = l, !.l = which, !.d = d,
                                                        !.b = started])
         IN  Broadcast(Invoke(w1, p, l), p, list, which, d, i + 1)

-----------------------------------------------------------------------------
(* FImGuiContextProxy::Draw *)

Draw_AllOwnLists(w, p) ==
    IF w.px[p].bIsFrameStarted /\ ~w.px[p].bIsDrawCalled
    THEN LET d == w.nd + 1
             w0 == [w EXCEPT !.px[p].bIsDrawCalled = TRUE, !.nd = d]
             w1 == Log(SetAsCurrent(w0, p), [Ev("Draw", p, w0.px[p].Context) EXCEPT !.d = d, !.n = w.cvar])
             all == w1.px[p].DrawEvent \o w1.px[Other(p)].DrawEvent
             bSharedFirst == w1.cvar > 0
             w2 == IF bSharedFirst /\ w1.px[p].HasSharedDrawEvent /\ w1.shared # <<>>
                   THEN Broadcast(w1, p, w1.shared, "shared", d, 1) ELSE w1
             w3 == IF all # <<>> THEN Broadcast(w2, p, all, "own", d, 1) ELSE w2
         IN  IF ~bSharedFirst /\ w3.px[p].HasSharedDrawEvent /\ w3.shared # <<>>
             THEN Broadcast(w3, p, w3.shared, "shared", d, 1) ELSE w3
    ELSE w

Draw_OwnFirst(w, p) ==
    IF w.px[p].bIsFrameStarted /\ ~w.px[p].bIsDrawCalled
    THEN LET d == w.nd + 1
             w0 == [w EXCEPT !.px[p].bIsDrawCalled = TRUE, !.nd = d]
             w1 == Log(SetAsCurrent(w0, p), [Ev("Draw", p, w0.px[p].Context) EXCEPT !.d = d, !.n = w.cvar])
             w3 == IF w1.px[p].DrawEvent # <<>>
                   THEN Broadcast(w1, p, w1.px[p].DrawEvent, "own", d, 1) ELSE w1
         IN  IF w3.px[p].HasSharedDrawEvent /\ w3.shared # <<>>
             THEN Broadcast(w3, p, w3.shared, "shared", d, 1) ELSE w3
    ELSE w

Draw_EndsFrame(w, p) ==
    IF w.px[p].bIsFrameStarted /\ ~w.px[p].bIsDrawCalled
    THEN LET d == w.nd + 1
             w0 == [w EXCEPT !.px[p].bIsDrawCalled = TRUE, !.nd = d]
             w1 == Log(SetAsCurrent(w0, p), [Ev("Draw", p, w0.px[p].Context) EXCEPT !.d = d, !.n = w.cvar])
             w3 == IF w1.px[p].DrawEvent # <<>>
                   THEN Broadcast(w1, p, w1.px[p].DrawEvent, "own", d, 1) ELSE w1
         IN  [w3 EXCEPT !.px[p].bIsFrameStarted = FALSE]
    ELSE w

Draw(w, p) ==
    IF w.px[p].bIsFrameStarted /\ ~w.px[p].bIsDrawCalled
    THEN LET d == w.nd + 1
             w0 == [w EXCEPT !.px[p].bIsDrawCalled = TRUE, !.nd = d]
             w1 == Log(SetAsCurrent(w0, p), [Ev("Draw", p, w0.px[p].Context) EXCEPT !.d = d, !.n = w.cvar])
             bSharedFirst == w1.cvar > 0
             w2 == IF bSharedFirst /\ w1.px[p].HasSharedDrawEvent /\ w1.shared # <<>>
                   THEN Broadcast(w1, p, w1.shared, "shared", d, 1) ELSE w1
             w3 == IF w2.px[p].DrawEvent # <<>>
                   THEN Broadcast(w2, p, w2.px[p].DrawEvent, "own", d, 1) ELSE w2
         IN  IF ~bSharedFirst /\ w3.px[p].HasSharedDrawEvent /\ w3.shared # <<>>
             THEN Broadcast(w3, p, w3.shared, "shared", d, 1) ELSE w3
    ELSE w

-----------------------------------------------------------------------------
(* FImGuiContextProxy::Tick *)

\* bHasActiveItem = ImGui::IsAnyItemActive() and MouseCursor =
\* ToSlateMouseCursor(ImGui::GetMouseCursor()): read from the current context.
Snapshot(w, p) ==
    LET tracked == w.cur \in ContextIds
        active == tracked /\ w.cx[w.cur].ActiveId
        cursor == ToSlateMouseCursor(IF tracked THEN w.cx[w.cur].MouseCursor ELSE "Arrow")
    IN  Log([w EXCEPT !.px[p].bHasActiveItem = active, !.px[p].MouseCursor = cursor],
            [Ev("Snapshot", p, w.cur) EXCEPT !.b = active, !.x = cursor])

\* lastTick is history: the counter value at the last call of Tick on the proxy.
Called(w, p) == [w EXCEPT !.px[p].lastTick = w.G]

Tick_NoFrameGuard(w, p) ==
    LET w0 == SetAsCurrent([Called(w, p) EXCEPT !.px[p].LastFrameNumber = w.G], p)
        w1 == IF w0.px[p].bIsFrameStarted THEN EndFrame(Draw(w0, p), p) ELSE w0
    IN  BeginFrame(Snapshot(w1, p), p)

Tick_NoDraw(w, p) ==
    IF w.px[p].LastFrameNumber < w.G
    THEN LET w0 == SetAsCurrent([Called(w, p) EXCEPT !.px[p].LastFrameNumber = w.G], p)
             w1 == IF w0.px[p].bIsFrameStarted THEN EndFrame(w0, p) ELSE w0
         IN  BeginFrame(Snapshot(w1, p), p)
    ELSE Called(w, p)

Tick_SnapshotLast(w, p) ==
    IF w.px[p].LastFrameNumber < w.G
    THEN LET w0 == SetAsCurrent([Called(w, p) EXCEPT !.px[p].LastFrameNumber = w.G], p)
             w1 == IF w0.px[p].bIsFrameStarted THEN EndFrame(Draw(w0, p), p) ELSE w0
         IN  Snapshot(BeginFrame(w1, p), p)
    ELSE Called(w, p)

Tick_SetLast(w, p) ==
    IF w.px[p].LastFrameNumber < w.G
    THEN LET w0 == SetAsCurrent(Called(w, p), p)
             w1 == IF w0.px[p].bIsFrameStarted THEN EndFrame(Draw(w0, p), p) ELSE w0
         IN  [BeginFrame(Snapshot(w1, p), p) EXCEPT !.px[p].LastFrameNumber = w.G]
    ELSE Called(w, p)

\* DeltaSeconds only sets IO.DeltaTime and is left out.
Tick(w, p) ==
    IF w.px[p].LastFrameNumber < w.G
    THEN LET w0 == SetAsCurrent([Called(w, p) EXCEPT !.px[p].LastFrameNumber = w.G], p)
             w1 == IF w0.px[p].bIsFrameStarted THEN EndFrame(Draw(w0, p), p) ELSE w0
         IN  BeginFrame(Snapshot(w1, p), p)
    ELSE Called(w, p)

-----------------------------------------------------------------------------
(* FImGuiContextProxy::FImGuiContextProxy, ~FImGuiContextProxy and the        *)
(* defaulted move constructor                                                 *)

\* ImGui::CreateContext: a new context; the current-context pointer is untouched.
CreateContext(w) ==
    [w EXCEPT !.cx[w.next] = [FreshContext EXCEPT !.alive = TRUE], !.next = @ + 1]

\* ImGui::DestroyContext: frees the context; a current-context pointer that
\* designated it becomes null.
DestroyContext(w, p, c) ==
    Log([w EXCEPT !.cx[c] = FreshContext,
                  !.cur = IF @ = c THEN NullContext ELSE @],
        [Ev("DestroyContext", p, c) EXCEPT !.path = w.cx[c].IniFilename])

\* ImGuiImplementation::SaveCurrentContextIniSettings(Filename): the current context.
SaveCurrentContextIniSettings(w, p, Filename) ==
    Log(w, [Ev("SaveIniSettings", p, w.cur) EXCEPT !.path = Filename])

Constructor_NoBeginFrame(w, p, InName) ==
    LET c  == w.next
        w0 == [CreateContext(w) EXCEPT
                  !.px[p] = [AbsentProxy EXCEPT !.state = "live", !.Name = InName,
                                                !.HasSharedDrawEvent = TRUE,
                                                !.IniFilename = IniFilenameOf(InName),
                                                !.Context = c]]
        w1 == SetAsCurrent(w0, p)
    IN  [w1 EXCEPT !.cx[w1.cur].IniFilename = w1.px[p].IniFilename]

Constructor(w, p, InName) ==
    LET c  == w.next
        w0 == [CreateContext(w) EXCEPT
                  !.px[p] = [AbsentProxy EXCEPT !.state = "live", !.Name = InName,
                                                !.HasSharedDrawEvent = TRUE,
                                                !.IniFilename = IniFilenameOf(InName),
                                                !.Context = c]]
        w1 == SetAsCurrent(w0, p)
        w2 == [w1 EXCEPT !.cx[w1.cur].IniFilename = w1.px[p].IniFilename]
    IN  BeginFrame(w2, p)

\* What the destructor does before the members are destroyed.
Destructor_NoDefault(w, p) ==
    IF w.px[p].Context # NullContext
    THEN LET w1 == SetAsCurrent(w, p)
             w2 == SaveCurrentContextIniSettings(w1, p, w1.px[p].IniFilename)
         IN  DestroyContext(w2, p, w2.px[p].Context)
    ELSE w

Destructor_SaveAfterDestroy(w, p) ==
    IF w.px[p].Context # NullContext
    THEN LET w1 == SetAsCurrent(w, p)
             w2 == DestroyContext(w1, p, w1.px[p].Context)
             w3 == SaveCurrentContextIniSettings(w2, p, w2.px[p].IniFilename)
         IN  Log(SetCurrentContext(w3, DefaultContext), Ev("SetCurrent", p, DefaultContext))
    ELSE w

Destructor(w, p) ==
    IF w.px[p].Context # NullContext
    THEN LET w1 == SetAsCurrent(w, p)
             w2 == SaveCurrentContextIniSettings(w1, p, w1.px[p].IniFilename)
             w3 == DestroyContext(w2, p, w2.px[p].Context)
         IN  Log(SetCurrentContext(w3, DefaultContext), Ev("SetCurrent", p, DefaultContext))
    ELSE w

\* FImGuiContextProxy(FImGuiContextProxy&&) = default: the object in slot q is
\* move-constructed from the one in slot p. Pointers to owned data move and leave
\* the source empty; scalars and raw pointers are copied.
MoveConstructor(w, p, q) ==
    [w EXCEPT !.px[q] = w.px[p],
              !.px[p] = [w.px[p] EXCEPT !.state = "moved", !.Context = NullContext,
                                        !.DrawEvent = <<>>, !.DrawLists = <<>>,
                                        !.Name = <<>>, !.IniFilename = <<>>]]

-----------------------------------------------------------------------------
(* History of the "construct, register one callback, N advancing Ticks" run. *)

ScenarioOff == [on |-> FALSE, n |-> 0, cb |-> 0, cap |-> 0, g |-> 0]

Count(tr, k, p, which) ==
    Cardinality({i \in 1..Len(tr) : tr[i].k = k /\ tr[i].p = p /\ tr[i].l = which})

\* The proxy is as its constructor left it.
JustConstructed(r) ==
    /\ r.state = "live" /\ r.DrawEvent = <<>> /\ r.LastFrameNumber = 0
    /\ r.lastTick = -1 /\ r.DrawLists = <<>> /\ ~r.bIsDrawCalled /\ r.bIsFrameStarted

ScenarioNext(name, p, w2) ==
    [q \in ProxyIds |->
        IF name = "AddOwn" /\ q = p /\ JustConstructed(Proxies[q])
        THEN [on |-> TRUE, n |-> 0, cb |-> 0, cap |-> 0, g |-> GFrameNumber]
        ELSE IF ~scenario[q].on THEN ScenarioOff
        ELSE IF name = "Tick" /\ q = p /\ GFrameNumber > scenario[q].g
             /\ w2.px[q].DrawEvent = Proxies[q].DrawEvent
        THEN [on |-> TRUE, n |-> scenario[q].n + 1,
              cb |-> scenario[q].cb + Count(w2.tr, "Callback", q, "own"),
              cap |-> scenario[q].cap + Count(w2.tr, "Capture", q, ""),
              g |-> GFrameNumber]
        ELSE IF w2.px[q] = Proxies[q] THEN scenario[q]
        ELSE ScenarioOff]

-----------------------------------------------------------------------------
(* Actions: one public operation applied to the current world. *)

\* The last operation: its name and proxy, what held of the proxy before it
\* (sameG: a Tick at the counter value of the previous Tick call), and whether it
\* left the proxy's members (kept) and the library state (libKept) unchanged.
OpRecord(name, p, pre, w2) ==
    [name |-> name, p |-> p,
     sameG |-> pre.lastTick = GFrameNumber,
     started |-> pre.bIsFrameStarted,
     drawCalled |-> pre.bIsDrawCalled,
     hadContext |-> pre.Context # NullContext,
     bound |-> pre.InputState # NoInputState,
     hadLists |-> Len(pre.DrawLists),
     kept |-> p \in ProxyIds => [w2.px[p] EXCEPT !.lastTick = pre.lastTick] = pre,
     libKept |-> w2.cx = Contexts /\ w2.cur = GImGui]

\* A Tick that consumed an input state moves its run on: from accumulating to
\* consumed when keys were set down and a wheel delta was added since the update
\* state was last cleared, from cleared to done.
InputsNext(name, w2) ==
    [n \in InputStates |->
        LET is == w2.inp[n]
            consumed == \E i \in 1..Len(w2.tr) : w2.tr[i].k = "CopyInput" /\ w2.tr[i].n = n
        IN  IF name = "Tick" /\ consumed
            THEN [is EXCEPT !.run =
                    IF @.ph = 0
                    THEN LET keys == {i \in is.touchedKeys : is.KeysDown[i]}
                         IN  IF keys # {} /\ is.MouseWheelDelta > 0
                             THEN [keys |-> keys, ph |-> 1]
                             ELSE NoRun
                    ELSE IF @.ph = 1 THEN @
                    ELSE [@ EXCEPT !.ph = 3]]
            ELSE is]

CommitWorld(name, p, w2) ==
    /\ GFrameNumber' = w2.G
    /\ GImGui' = w2.cur
    /\ DebugDrawOnWorldTick' = w2.cvar
    /\ SharedDrawEvent' = w2.shared
    /\ Proxies' = w2.px
    /\ Contexts' = w2.cx
    /\ NextContext' = w2.next
    /\ ModuleManager' = w2.mm
    /\ Handles' = w2.hs
    /\ NativeLists' = w2.dd
    /\ Inputs' = InputsNext(name, w2)
    /\ trace' = w2.tr
    /\ op' = OpRecord(name, p, IF p \in ProxyIds THEN Proxies[p] ELSE AbsentProxy, w2)
    /\ scenario' = ScenarioNext(name, p, w2)
    /\ UNCHANGED <<nameVars, paint>>

Commit(name, p, w2) ==
    /\ CommitWorld(name, p, w2)
    /\ UNCHANGED hostVars

Live(p) == Proxies[p].state = "live"

AllRegistered ==
    Range(SharedDrawEvent) \cup UNION {Range(Proxies[p].DrawEvent) : p \in ProxyIds}

\* The engine advances GFrameNumber once per frame.
AdvanceFrame ==
    /\ GFrameNumber < MaxFrame
    /\ Commit("AdvanceFrame", "-", [World EXCEPT !.G = @ + 1])

ConstructProxy(p) ==
    /\ Proxies[p].state = "absent"
    /\ NextContext <= MaxContexts
    /\ Commit("Construct", p, Constructor(World, p, NameOf(p)))

DestroyProxy(p) ==
    /\ Proxies[p].state # "absent"
    /\ Commit("Destroy", p, [Destructor(World, p) EXCEPT !.px[p] = AbsentProxy])

\* The object in slot p is moved into the empty slot beside it.
MoveProxy(p) ==
    /\ Live(p)
    /\ Proxies[Other(p)].state = "absent"
    /\ Commit("Move", p, MoveConstructor(World, p, Other(p)))

TickProxy(p) ==
    /\ Live(p)
    /\ Commit("Tick", p, Tick(World, p))

DrawProxy(p) ==
    /\ Live(p)
    /\ Commit("Draw", p, Draw(World, p))

\* A listener bound after the Draw of the current frame is not due in that frame:
\* the history counts it as invoked.
Due(r) == IF r.state = "live" /\ r.bIsFrameStarted /\ r.bIsDrawCalled THEN 1 ELSE 0

\* OnDraw().Add
AddOwn(p, l) ==
    /\ Live(p)
    /\ l \notin AllRegistered
    /\ Cardinality(AllRegistered) < MaxCallbacks
    /\ Commit("AddOwn", p, [World EXCEPT !.px[p].DrawEvent = Append(@, l),
                                         !.px[p].calls[l] = Due(Proxies[p])])

\* OnDrawMultiContext().Add
AddShared(l) ==
    /\ l \notin AllRegistered
    /\ Cardinality(AllRegistered) < MaxCallbacks
    /\ Commit("AddShared", "-",
              [World EXCEPT !.shared = Append(@, l),
                            !.px = [p \in ProxyIds |->
                                      [@[p] EXCEPT !.calls[l] = Due(Proxies[p])]]])

\* Remove(Handle) on the delegate that holds the listener.
RemoveListener(l) ==
    /\ l \in AllRegistered
    /\ Commit("Remove", "-",
              [World EXCEPT !.shared = Remove(@, l),
                            !.px = [p \in ProxyIds |->
                                      [@[p] EXCEPT !.DrawEvent = Remove(@, l),
                                                   !.calls[l] = 0]]])

SetCVar(v) ==
    /\ v # DebugDrawOnWorldTick
    /\ Commit("SetCVar", "-", [World EXCEPT !.cvar = v])

\* FImGuiContextProxy::SetInputState
SetInputState(p, i) ==
    /\ Live(p)
    /\ Proxies[p].InputState # i
    /\ Commit("SetInputState", p, [World EXCEPT !.px[p].InputState = i])

\* FImGuiContextProxy::RemoveInputState
RemoveInputState(p, i) ==
    /\ Live(p)
    /\ Proxies[p].InputState # NoInputState
    /\ Commit("RemoveInputState", p,
              [World EXCEPT !.px[p].InputState = IF @ = i THEN NoInputState ELSE @])

\* The private methods called on their own, as the frame state machine of one proxy.
BeginFrameProxy(p) ==
    /\ Live(p)
    /\ Commit("BeginFrame", p, BeginFrame(World, p))

EndFrameProxy(p) ==
    /\ Live(p)
    /\ Commit("EndFrame", p, EndFrame(World, p))

-----------------------------------------------------------------------------
(* FImGuiModule: the delegate registration interface and the module manager. *)

\* FImGuiDelegateHandle: the delegate's handle (identified with the listener it was
\* returned for), the delegate category and the scope index of the proxy.
DelegateHandle(l, cat, idx) == [Handle |-> l, Category |-> cat, Index |-> idx]
HandleIds == {h.Handle : h \in Handles}
\* The listeners client code registers through the module.
ListenerPool == {"Flag", "DrawSelf"}
AllHandles ==
    {DelegateHandle(l, "Default", p) : l \in ListenerPool, p \in ProxyIds}
        \cup {DelegateHandle(l, "MultiContext", "-") : l \in ListenerPool}

\* FImGuiContextManager::GetContextProxy(Index): the proxy at the index, or none.
GetContextProxy(w, idx) ==
    IF idx \in ProxyIds /\ w.px[idx].state = "live" THEN idx ELSE "-"

\* FImGuiContextManager::GetWorldContextProxy: the proxy of the scope, constructed
\* when the scope has none yet.
GetWorldContextProxy(w, p) ==
    IF w.px[p].state = "live" THEN w ELSE Constructor(w, p, NameOf(p))

RemoveImGuiDelegate_First(w, h) ==
    IF w.mm
    THEN IF h.Category = "MultiContext"
         THEN [w EXCEPT !.shared = IF @ = <<>> THEN @ ELSE Tail(@)]
         ELSE IF GetContextProxy(w, h.Index) # "-"
              THEN [w EXCEPT !.px[h.Index].DrawEvent = IF @ = <<>> THEN @ ELSE Tail(@)]
              ELSE w
    ELSE w

\* FImGuiModule::RemoveImGuiDelegate. Removing a handle from a delegate that does
\* not hold it changes nothing.
RemoveImGuiDelegate(w, h) ==
    IF w.mm
    THEN IF h.Category = "MultiContext"
         THEN [w EXCEPT !.shared = Remove(@, h.Handle)]
         ELSE IF GetContextProxy(w, h.Index) # "-"
              THEN [w EXCEPT !.px[h.Index].DrawEvent = Remove(@, h.Handle)]
              ELSE w
    ELSE w

\* The history forgets the invocations of listeners that are bound nowhere.
Forget(w) ==
    [w EXCEPT !.px = [p \in ProxyIds |->
        [@[p] EXCEPT !.calls = [l \in Listeners |->
            IF l \in Registered(w, p) THEN w.px[p].calls[l] ELSE 0]]]]

\* The handle FImGuiModule::AddWorldImGuiDelegate returns: the index is the one
\* GetWorldContextProxy gave for the world.
WorldDelegateHandle_FirstIndex(l, Index) == DelegateHandle(l, "Default", "A")
WorldDelegateHandle(l, Index) == DelegateHandle(l, "Default", Index)

\* FImGuiModule::AddWorldImGuiDelegate for the world whose scope index is p.
AddWorldImGuiDelegate(p, l) ==
    /\ ModuleManager
    /\ l \notin AllRegistered \cup HandleIds
    /\ Cardinality(AllRegistered) < MaxCallbacks
    /\ Live(p) \/ (Proxies[p].state = "absent" /\ NextContext <= MaxContexts)
    /\ LET w1 == GetWorldContextProxy(World, p)
       IN  Commit("AddWorldImGuiDelegate", p,
                  [w1 EXCEPT !.px[p].DrawEvent = Append(@, l),
                             !.px[p].calls[l] = Due(w1.px[p]),
                             !.hs = @ \cup {WorldDelegateHandle(l, p)}])

\* FImGuiModule::AddMultiContextImGuiDelegate
AddMultiContextImGuiDelegate(l) ==
    /\ ModuleManager
    /\ l \notin AllRegistered \cup HandleIds
    /\ Cardinality(AllRegistered) < MaxCallbacks
    /\ Commit("AddMultiContextImGuiDelegate", "-",
              [World EXCEPT !.shared = Append(@, l),
                            !.px = [p \in ProxyIds |->
                                      [@[p] EXCEPT !.calls[l] = Due(Proxies[p])]],
                            !.hs = @ \cup {DelegateHandle(l, "MultiContext", "-")}])

\* FImGuiModule::RemoveImGuiDelegate called with a handle the client holds; the
\* client drops the handle.
RemoveImGuiDelegateCall(h) ==
    /\ h \in Handles
    /\ LET w1 == Forget(RemoveImGuiDelegate(World, h))
           e  == [Ev("RemoveImGuiDelegate", h.Index, w1.cur) EXCEPT
                     !.x = h.Handle, !.l = h.Category]
       IN  Commit("RemoveImGuiDelegate", h.Index, Log([w1 EXCEPT !.hs = @ \ {h}], e))

\* FImGuiModule::StartupModule
StartupModule ==
    /\ ~ModuleManager
    /\ Commit("StartupModule", "-", [World EXCEPT !.mm = TRUE])

\* The manager's destruction destroys the proxies it owns and the shared delegate.
DeleteModuleManager(w) ==
    LET wa == IF w.px["A"].state # "absent" THEN Destructor(w, "A") ELSE w
        wb == IF wa.px["B"].state # "absent" THEN Destructor(wa, "B") ELSE wa
    IN  [wb EXCEPT !.px = [p \in ProxyIds |-> AbsentProxy], !.shared = <<>>]

\* FImGuiModule::ShutdownModule
ShutdownModule ==
    /\ ModuleManager
    /\ Commit("ShutdownModule", "-", [DeleteModuleManager(World) EXCEPT !.mm = FALSE])

-----------------------------------------------------------------------------
(* FImGuiDrawList and the loop of SImGuiWidget::OnPaint that emits one draw list. *)

\* Element counts of draw commands, vertices, and position offsets.
ElemCounts == {0, 1, 3}
VertexValues == {[pos |-> <<0, 0>>, uv |-> <<0, 0>>, col |-> 1],
                 [pos |-> <<3, 5>>, uv |-> <<1, 0>>, col |-> 2]}
PositionOffsets == {<<0, 0>>, <<10, 20>>, <<-1, 7>>}

RECURSIVE SumElemCount(_)
SumElemCount(cmds) ==
    IF cmds = <<>> THEN 0 ELSE Head(cmds).ElemCount + SumElemCount(Tail(cmds))

\* The command buffers ImGui produces, and the index buffers for K indices.
CommandBuffers == UNION {[1..n -> [ElemCount : ElemCounts]] : n \in 0..MaxCommands}
IndexBuffers(K) == {[i \in 1..K |-> i - 1], [i \in 1..K |-> K - i]}
VertexBuffers == UNION {[1..n -> VertexValues] : n \in 0..MaxVerts}

\* FImGuiDrawList::NumCommands
NumCommands(dl) == Len(dl.ImGuiCommandBuffer)

\* FImGuiDrawList::GetCommand(CommandNb), CommandNb counted from 0.
GetCommand(dl, CommandNb) == [NumElements |-> dl.ImGuiCommandBuffer[CommandNb + 1].ElemCount]

CopyVertexData_NoOffset(dl, Offset) ==
    [i \in 1..Len(dl.ImGuiVertexBuffer) |->
        [Position |-> dl.ImGuiVertexBuffer[i].pos,
         TexCoords |-> dl.ImGuiVertexBuffer[i].uv,
         Color |-> dl.ImGuiVertexBuffer[i].col]]

\* FImGuiDrawList::CopyVertexData: the new contents of the target buffer.
CopyVertexData(dl, Offset) ==
    [i \in 1..Len(dl.ImGuiVertexBuffer) |->
        [Position |-> <<dl.ImGuiVertexBuffer[i].pos[1] + Offset[1],
                        dl.ImGuiVertexBuffer[i].pos[2] + Offset[2]>>,
         TexCoords |-> dl.ImGuiVertexBuffer[i].uv,
         Color |-> dl.ImGuiVertexBuffer[i].col]]

CopyIndexData_Clamped(dl, Out, StartIndex, NumElements) ==
    [fatal |-> FALSE,
     buffer |-> SubSeq(dl.ImGuiIndexBuffer, StartIndex + 1,
                       IF StartIndex + NumElements > Len(dl.ImGuiIndexBuffer)
                       THEN Len(dl.ImGuiIndexBuffer) ELSE StartIndex + NumElements)]

\* FImGuiDrawList::CopyIndexData: whether it fails fatally, and the contents of
\* the target buffer after it.
CopyIndexData(dl, Out, StartIndex, NumElements) ==
    IF StartIndex + NumElements > Len(dl.ImGuiIndexBuffer)
    THEN [fatal |-> TRUE, buffer |-> Out]
    ELSE [fatal |-> FALSE,
          buffer |-> [i \in 1..NumElements |-> dl.ImGuiIndexBuffer[StartIndex + i]]]

NextIndexBufferOffset_Stay(IndexBufferOffset, DrawCommand) == IndexBufferOffset

\* IndexBufferOffset += DrawCommand.NumElements
NextIndexBufferOffset(IndexBufferOffset, DrawCommand) ==
    IndexBufferOffset + DrawCommand.NumElements

\* No draw list is being painted.
NoPaint ==
    [DrawList |-> [ImGuiCommandBuffer |-> <<>>, ImGuiIndexBuffer |-> <<>>,
                   ImGuiVertexBuffer |-> <<>>],
     VertexBuffer |-> <<>>, IndexBuffer |-> <<>>, IndexBufferOffset |-> 0,
     CommandNb |-> 0, pc |-> "idle", fatal |-> FALSE,
     Offset |-> <<0, 0>>, req |-> <<0, 0>>, before |-> <<>>, emissions |-> 0,
     ranges |-> <<>>, emitted |-> <<>>]

\* OnPaint, for one draw list: the vertices are copied with the position offset and
\* the loop over the commands starts. emissions is history (counted up to 2).
PaintDrawList(Offset) ==
    /\ paint.pc \in {"idle", "commands"} /\ ~paint.fatal
    /\ paint.pc = "commands" => paint.CommandNb = NumCommands(paint.DrawList)
    /\ Offset # paint.Offset \/ paint.emissions = 0
    /\ paint' = [paint EXCEPT !.VertexBuffer = CopyVertexData(paint.DrawList, Offset),
                              !.Offset = Offset,
                              !.emissions = IF @ < 2 THEN @ + 1 ELSE @,
                              !.IndexBufferOffset = 0, !.CommandNb = 0,
                              !.req = <<0, 0>>, !.before = <<>>,
                              !.ranges = <<>>, !.emitted = <<>>, !.pc = "commands"]
    /\ UNCHANGED <<worldVars, nameVars, hostVars>>

\* One iteration of the loop over the commands. ranges and emitted are history:
\* the ranges requested and the indices received so far.
PaintCommand ==
    /\ paint.pc = "commands" /\ ~paint.fatal
    /\ paint.CommandNb < NumCommands(paint.DrawList)
    /\ LET DrawCommand == GetCommand(paint.DrawList, paint.CommandNb)
           r == CopyIndexData(paint.DrawList, paint.IndexBuffer,
                              paint.IndexBufferOffset, DrawCommand.NumElements)
       IN  paint' = [paint EXCEPT
                !.IndexBuffer = r.buffer, !.fatal = r.fatal,
                !.req = <<paint.IndexBufferOffset, DrawCommand.NumElements>>,
                !.before = paint.IndexBuffer,
                !.ranges = Append(@, <<paint.IndexBufferOffset, DrawCommand.NumElements>>),
                !.emitted = IF r.fatal THEN @ ELSE @ \o r.buffer,
                !.IndexBufferOffset = NextIndexBufferOffset(@, DrawCommand),
                !.CommandNb = @ + 1]
    /\ UNCHANGED <<worldVars, nameVars, hostVars>>

\* CopyIndexData called with any start and count, before or after the widget
\* painted the draw list.
CopyIndexDataCall(StartIndex, NumElements) ==
    /\ paint.pc \in {"idle", "commands"} /\ ~paint.fatal
    /\ paint.pc = "commands" => paint.CommandNb = NumCommands(paint.DrawList)
    /\ LET r == CopyIndexData(paint.DrawList, paint.IndexBuffer, StartIndex, NumElements)
       IN  paint' = [paint EXCEPT !.IndexBuffer = r.buffer, !.fatal = r.fatal,
                                  !.req = <<StartIndex, NumElements>>,
                                  !.before = paint.IndexBuffer, !.pc = "called"]
    /\ UNCHANGED <<worldVars, nameVars, hostVars>>

-----------------------------------------------------------------------------
(* FImGuiModule: the runtime toggles, kept in two integer console variables. *)

\* The values the console sets the variables to.
ToggleValues == {-1, 0, 1, 2}

\* FImGuiModule::IsInputMode
IsInputMode == InputEnabled > 0

\* FImGuiModule::SetInputMode: the value it sets CVars::InputEnabled to.
SetInputMode_Always(bEnabled) == 1
SetInputMode(bEnabled) == IF bEnabled THEN 1 ELSE 0

\* FImGuiModule::ToggleInputMode
ToggleInputMode == SetInputMode(~IsInputMode)

\* FImGuiModule::IsShowingDemo
IsShowingDemo == ShowDemo > 0

\* FImGuiModule::SetShowDemo: the value it sets CVars::ShowDemo to.
SetShowDemo(bShow) == IF bShow THEN 1 ELSE 0

\* FImGuiModule::ToggleShowDemo
ToggleShowDemo == SetShowDemo(~IsShowingDemo)

\* The history of the toggle interface: the last call, its argument and the
\* values of the variables before it, and the call before it.
NoToggle ==
    [name |-> "-", b |-> FALSE, InputEnabled |-> 0, ShowDemo |-> 0,
     prev |-> [name |-> "-", InputEnabled |-> 0, ShowDemo |-> 0]]
Toggled(name, b) ==
    [name |-> name, b |-> b, InputEnabled |-> InputEnabled, ShowDemo |-> ShowDemo,
     prev |-> [name |-> toggled.name, InputEnabled |-> toggled.InputEnabled,
               ShowDemo |-> toggled.ShowDemo]]

ToggleCall(name, b, input, demo) ==
    /\ InputEnabled' = input
    /\ ShowDemo' = demo
    /\ toggled' = Toggled(name, b)
    /\ UNCHANGED <<worldVars, nameVars, paint, DrawMouseCursor, Registry, Widgets>>

SetInputModeCall(bEnabled) ==
    ToggleCall("SetInputMode", bEnabled, SetInputMode(bEnabled), ShowDemo)

ToggleInputModeCall ==
    ToggleCall("ToggleInputMode", FALSE, ToggleInputMode, ShowDemo)

SetShowDemoCall(bShow) ==
    ToggleCall("SetShowDemo", bShow, InputEnabled, SetShowDemo(bShow))

ToggleShowDemoCall ==
    ToggleCall("ToggleShowDemo", FALSE, InputEnabled, ToggleShowDemo)

\* The console sets one of the variables (ImGui.InputEnabled, ImGui.ShowDemo).
ConsoleSetInputEnabled(v) ==
    /\ v # InputEnabled
    /\ ToggleCall("Console", FALSE, v, ShowDemo)

ConsoleSetShowDemo(v) ==
    /\ v # ShowDemo
    /\ ToggleCall("Console", FALSE, InputEnabled, v)

-----------------------------------------------------------------------------
(* SImGuiWidget: the widget of one proxy and the input state it owns. *)

\* EInputMode
InputModes == {"None", "MousePointerOnly", "MouseAndKeyboard"}

\* No widget: the members before Construct. The rest is history: the last
\* UpdateInputMode call of the last handler (its arguments, the mode and the input
\* state before it), what the last handler's proxy lookup came to, the cursor the
\* last OnCursorQuery replied, and in how many frames in a row the proxy consumed
\* a mouse wheel delta that was not cleared in between (counted up to 2).
NoUpdate == [called |-> FALSE]
\* The history of a Tick of the widget: which of its steps called UpdateInputMode,
\* and the input mode UpdateMouseStatus left.
NoTick == [ran |-> FALSE, mouse |-> FALSE, disabled |-> FALSE, grabbed |-> FALSE,
           background |-> FALSE, hovered |-> FALSE, afterMouse |-> "-"]
\* The history of a key event handler: the event, whether the key was down before
\* it and the reply.
NoKeyEvent == [kind |-> "-"]
\* The history of a mouse button handler: the button of the event and the index
\* passed to SetMouseDown.
NoButtonEvent == [MouseButton |-> "-"]
\* The history of a GetKeyIndex call of a key handler: the key and the outcome.
NoKeyIndex == [Key |-> "-"]
NoWidget ==
    [state |-> "absent", ContextIndex |-> "-", InputMode |-> "None",
     bInputEnabled |-> FALSE, bReceivedMouseEvent |-> FALSE,
     upd |-> NoUpdate, tick |-> NoTick, key |-> NoKeyEvent, button |-> NoButtonEvent,
     index |-> NoKeyIndex, lookup |-> "-",
     CursorReply |-> "None", wheelFrames |-> 0, postUpdate |-> FALSE]

\* The worlds that come and go, each a scope of the registry. No scope has an
\* index at the start and no handle was registered.
Scopes == {"W1", "W2", "W3"}
NoRegistry ==
    [index |-> [s \in Scopes |-> "-"],
     on |-> [l \in Listeners |-> [scope |-> "-", Context |-> NullContext]]]

HostInit ==
    /\ InputEnabled = 0
    /\ ShowDemo = 0
    /\ DrawMouseCursor = 0
    /\ toggled = NoToggle
    /\ Registry = NoRegistry
    /\ Widgets = [n \in InputStates |-> NoWidget]

Init ==
    /\ GFrameNumber = 0
    /\ GImGui = DefaultContext
    /\ DebugDrawOnWorldTick = 0
    /\ SharedDrawEvent = <<>>
    /\ Proxies = [p \in ProxyIds |-> AbsentProxy]
    /\ Contexts = [c \in NullContext..MaxContexts |->
                     IF c = DefaultContext THEN [FreshContext EXCEPT !.alive = TRUE]
                     ELSE FreshContext]
    /\ NextContext = 1
    /\ ModuleManager = TRUE
    /\ Handles = {}
    /\ NativeLists = <<1>>
    /\ Inputs = [n \in InputStates |-> NewInputState]
    /\ trace = <<>>
    /\ op = OpRecord("Init", "-", AbsentProxy, World)
    /\ scenario = [p \in ProxyIds |-> ScenarioOff]
    /\ nameA = NameOf("A") /\ nameB = NameOf("B")
    /\ iniA = <<>> /\ iniB = <<>>
    /\ HostInit
    /\ paint = NoPaint

\* Two proxies, their Ticks and Draws, and listeners that reach the other proxy.
Next ==
    \/ AdvanceFrame
    \/ \E p \in ProxyIds : ConstructProxy(p)
    \/ \E p \in ProxyIds : DestroyProxy(p)
    \/ \E p \in ProxyIds : TickProxy(p)
    \/ \E p \in ProxyIds : DrawProxy(p)
    \/ \E p \in ProxyIds, l \in CrossListeners : AddOwn(p, l)
    \/ \E l \in CrossListeners : RemoveListener(l)

Spec == Init /\ [][Next]_vars

\* The frame loop of one proxy: Ticks, manual Draws, own and shared listeners that
\* call back into the proxy, and the ordering flag.
FrameNext ==
    \/ AdvanceFrame
    \/ ConstructProxy("A")
    \/ DestroyProxy("A")
    \/ TickProxy("A")
    \/ DrawProxy("A")
    \/ \E l \in SelfListeners : AddOwn("A", l)
    \/ \E l \in SelfListeners : AddShared(l)
    \/ \E l \in SelfListeners : RemoveListener(l)
    \/ \E v \in CVarValues : SetCVar(v)

FrameSpec == Init /\ [][FrameNext]_vars

\* The frames of one proxy whose callbacks draw a focused text field or Tick the
\* proxy again.
WidgetListeners == {"Widget", "TickSelf"}
SnapshotNext ==
    \/ AdvanceFrame
    \/ ConstructProxy("A")
    \/ DestroyProxy("A")
    \/ TickProxy("A")
    \/ DrawProxy("A")
    \/ \E l \in WidgetListeners : AddOwn("A", l)
    \/ \E l \in WidgetListeners : RemoveListener(l)

SnapshotSpec == Init /\ [][SnapshotNext]_vars

\* The same with an input state bound to the proxy.
DrawEffectNext ==
    \/ SnapshotNext
    \/ SetInputState("A", 1)

DrawEffectSpec == Init /\ [][DrawEffectNext]_vars

\* The lifetime of the proxy objects: construction, move, destruction, Ticks.
LifeNext ==
    \/ AdvanceFrame
    \/ \E p \in ProxyIds : ConstructProxy(p)
    \/ \E p \in ProxyIds : DestroyProxy(p)
    \/ \E p \in ProxyIds : MoveProxy(p)
    \/ \E p \in ProxyIds : TickProxy(p)
    \/ \E p \in ProxyIds, i \in InputStates : SetInputState(p, i)

LifeSpec == Init /\ [][LifeNext]_vars

\* What the draw callbacks of the coming frames put into the context: the command
\* lists ImGui::Render will produce.
ListData == {1, 2}
DrawContent(lists) ==
    /\ lists # NativeLists
    /\ Commit("DrawContent", "-", [World EXCEPT !.dd = lists])

\* The frames of one proxy with changing draw data.
CaptureNext ==
    \/ AdvanceFrame
    \/ ConstructProxy("A")
    \/ DestroyProxy("A")
    \/ TickProxy("A")
    \/ EndFrameProxy("A")
    \/ BeginFrameProxy("A")
    \/ \E n \in 0..MaxLists : \E lists \in [1..n -> ListData] : DrawContent(lists)

CaptureSpec == Init /\ [][CaptureNext]_vars

\* The frame state machine of one proxy, its private frame methods callable one
\* by one, with the input state bound and unbound.
MethodNext ==
    \/ AdvanceFrame
    \/ ConstructProxy("A")
    \/ DestroyProxy("A")
    \/ TickProxy("A")
    \/ DrawProxy("A")
    \/ BeginFrameProxy("A")
    \/ EndFrameProxy("A")
    \/ AddOwn("A", "Flag")
    \/ RemoveListener("Flag")
    \/ \E i \in InputStates : SetInputState("A", i)
    \/ \E i \in InputStates : RemoveInputState("A", i)

MethodSpec == Init /\ [][MethodNext]_vars

\* The module interface: delegates registered and removed by handle, worlds (and
\* their proxies) that come and go, the module started and shut down.
ModuleNext ==
    \/ AdvanceFrame
    \/ StartupModule
    \/ ShutdownModule
    \/ \E p \in ProxyIds, l \in ListenerPool : AddWorldImGuiDelegate(p, l)
    \/ \E l \in ListenerPool : AddMultiContextImGuiDelegate(l)
    \/ \E h \in AllHandles : RemoveImGuiDelegateCall(h)
    \/ \E p \in ProxyIds : DestroyProxy(p)
    \/ \E p \in ProxyIds : TickProxy(p)

ModuleSpec == Init /\ [][ModuleNext]_vars

\* One captured draw list, painted by the widget and read with any index range.
PaintInit ==
    /\ GFrameNumber = 0
    /\ GImGui = DefaultContext
    /\ DebugDrawOnWorldTick = 0
    /\ SharedDrawEvent = <<>>
    /\ Proxies = [p \in ProxyIds |-> AbsentProxy]
    /\ Contexts = [c \in NullContext..MaxContexts |->
                     IF c = DefaultContext THEN [FreshContext EXCEPT !.alive = TRUE]
                     ELSE FreshContext]
    /\ NextContext = 1
    /\ ModuleManager = TRUE
    /\ Handles = {}
    /\ NativeLists = <<1>>
    /\ Inputs = [n \in InputStates |-> NewInputState]
    /\ trace = <<>>
    /\ op = OpRecord("Init", "-", AbsentProxy, World)
    /\ scenario = [p \in ProxyIds |-> ScenarioOff]
    /\ nameA = NameOf("A") /\ nameB = NameOf("B")
    /\ iniA = <<>> /\ iniB = <<>>
    /\ HostInit
    /\ \E cmds \in CommandBuffers, vtx \in VertexBuffers :
         \E idx \in IndexBuffers(SumElemCount(cmds)) :
            paint = [NoPaint EXCEPT !.DrawList = [ImGuiCommandBuffer |-> cmds,
                                                  ImGuiIndexBuffer |-> idx,
                                                  ImGuiVertexBuffer |-> vtx]]

PaintNext ==
    \/ \E Offset \in PositionOffsets : PaintDrawList(Offset)
    \/ PaintCommand
    \/ \E StartIndex \in 0..Len(paint.DrawList.ImGuiIndexBuffer) :
         \E NumElements \in 0..(Len(paint.DrawList.ImGuiIndexBuffer) + 1) :
            CopyIndexDataCall(StartIndex, NumElements)

PaintSpec == PaintInit /\ [][PaintNext]_vars

\* The settings paths of two proxies constructed with any two names.
Names == UNION {[1..n -> NameChars] : n \in 0..MaxNameLen}

NameInit ==
    /\ GFrameNumber = 0
    /\ GImGui = DefaultContext
    /\ DebugDrawOnWorldTick = 0
    /\ SharedDrawEvent = <<>>
    /\ Proxies = [p \in ProxyIds |-> AbsentProxy]
    /\ Contexts = [c \in NullContext..MaxContexts |->
                     IF c = DefaultContext THEN [FreshContext EXCEPT !.alive = TRUE]
                     ELSE FreshContext]
    /\ NextContext = 1
    /\ ModuleManager = TRUE
    /\ Handles = {}
    /\ NativeLists = <<1>>
    /\ Inputs = [n \in InputStates |-> NewInputState]
    /\ trace = <<>>
    /\ op = OpRecord("Init", "-", AbsentProxy, World)
    /\ scenario = [p \in ProxyIds |-> ScenarioOff]
    /\ nameA \in Names /\ nameB \in Names
    /\ iniA = <<>> /\ iniB = <<>>
    /\ HostInit
    /\ paint = NoPaint

\* The member initialiser IniFilename(TCHAR_TO_ANSI(*GetIniFile(InName))).
InitIniFilenameA ==
    /\ iniA = <<>>
    /\ iniA' = IniFilenameOf(nameA)
    /\ UNCHANGED <<worldVars, nameA, nameB, iniB, paint, hostVars>>

InitIniFilenameB ==
    /\ iniB = <<>>
    /\ iniB' = IniFilenameOf(nameB)
    /\ UNCHANGED <<worldVars, nameA, nameB, iniA, paint, hostVars>>

NameNext == InitIniFilenameA \/ InitIniFilenameB

NameSpec == NameInit /\ [][NameNext]_vars

-----------------------------------------------------------------------------
(* The widget: the calls it makes on its input state. *)

\* InputState.SetKeyDown(Index, bIsDown) of OnKeyDown and OnKeyUp
SetKeyDownCall(n, i, bIsDown) ==
    Commit("Input", "-", [World EXCEPT !.inp[n] = SetKeyDown(@, i, bIsDown)])

\* InputState.SetMouseDown(Index, bIsDown) of OnMouseButtonDown,
\* OnMouseButtonDoubleClick and OnMouseButtonUp
SetMouseDownCall(n, i, bIsDown) ==
    Commit("Input", "-", [World EXCEPT !.inp[n] = SetMouseDown(@, i, bIsDown)])

\* InputState.AddMouseWheelDelta(Delta) of OnMouseWheel
AddMouseWheelDeltaCall(n, DeltaValue) ==
    /\ Inputs[n].MouseWheelDelta + DeltaValue <= MaxWheel
    /\ Commit("Input", "-",
              [World EXCEPT !.inp[n] = AddMouseWheelDelta(@, DeltaValue)])

\* InputState.SetMousePosition(Position) of OnMouseMove
SetMousePositionCall(n, Position) ==
    Commit("Input", "-", [World EXCEPT !.inp[n] = SetMousePosition(@, Position)])

\* CopyModifierKeys(InputEvent)
CopyModifierKeysCall(n, m) ==
    Commit("Input", "-", [World EXCEPT !.inp[n] = CopyModifierKeys(@, m)])

\* InputState.SetMousePointer(bHasMousePointer) of UpdateInputMode
SetMousePointerCall(n, bHasMousePointer) ==
    Commit("Input", "-",
           [World EXCEPT !.inp[n] = SetMousePointer(@, bHasMousePointer)])

\* SImGuiWidget::OnPostImGuiUpdate: the update state is cleared unless the widget
\* has no input mode.
OnPostImGuiUpdateOf(is, InputMode) ==
    IF InputMode # "None" THEN ClearUpdateState(is) ELSE is

OnPostImGuiUpdate(n, InputMode) ==
    Commit("Input", "-", [World EXCEPT !.inp[n] = OnPostImGuiUpdateOf(@, InputMode)])

\* One widget with keys and mouse buttons, bound to one proxy. The key events are
\* those of the first and of the last key.
KeyEnds == {0, NumKeys - 1}
InputNext ==
    \/ AdvanceFrame
    \/ ConstructProxy("A")
    \/ SetInputState("A", 1)
    \/ TickProxy("A")
    \/ \E i \in KeyEnds, b \in BOOLEAN : SetKeyDownCall(1, i, b)
    \/ \E i \in MouseIndices, b \in BOOLEAN : SetMouseDownCall(1, i, b)
    \/ \E m \in InputModes : OnPostImGuiUpdate(1, m)

InputSpec == Init /\ [][InputNext]_vars

\* One widget with keys and the mouse wheel, bound to one proxy.
WheelNext ==
    \/ AdvanceFrame
    \/ ConstructProxy("A")
    \/ SetInputState("A", 1)
    \/ TickProxy("A")
    \/ \E i \in KeyIndices, b \in BOOLEAN : SetKeyDownCall(1, i, b)
    \/ AddMouseWheelDeltaCall(1, 1)
    \/ \E m \in InputModes : OnPostImGuiUpdate(1, m)

WheelSpec == Init /\ [][WheelNext]_vars

\* One widget with one key, one mouse button, the modifier keys and the pointer.
ConsumeNext ==
    \/ AdvanceFrame
    \/ ConstructProxy("A")
    \/ SetInputState("A", 1)
    \/ TickProxy("A")
    \/ \E b \in BOOLEAN : SetKeyDownCall(1, 0, b)
    \/ \E b \in BOOLEAN : SetMouseDownCall(1, 0, b)
    \/ \E pos \in MousePositions : SetMousePositionCall(1, pos)
    \/ \E m \in ModifierValues : CopyModifierKeysCall(1, m)
    \/ \E b \in BOOLEAN : SetMousePointerCall(1, b)
    \/ \E m \in InputModes : OnPostImGuiUpdate(1, m)

ConsumeSpec == Init /\ [][ConsumeNext]_vars

-----------------------------------------------------------------------------
(* SImGuiWidget: its handlers. *)

\* FImGuiInputState::ResetKeyboardState: the keys and the keyboard modifiers are
\* cleared; every key counts as changed.
ResetKeyboardState(is) ==
    [is EXCEPT !.KeysDown = [i \in KeyIndices |-> FALSE],
               !.bIsControlDown = FALSE, !.bIsShiftDown = FALSE, !.bIsAltDown = FALSE,
               !.KeysUpdateRange = <<0, NumKeys>>,
               !.touchedKeys = KeyIndices, !.clean = FALSE, !.run = NoRun]

\* FImGuiInputState::ResetMouseState: the mouse buttons, the position and the wheel
\* delta are cleared; every button counts as changed.
ResetMouseState(is) ==
    [is EXCEPT !.MouseButtonsDown = [i \in MouseIndices |-> FALSE],
               !.MousePosition = <<0, 0>>,
               !.MouseWheelDelta = 0,
               !.MouseButtonsUpdateRange = <<0, NumButtons>>,
               !.touchedButtons = MouseIndices, !.clean = FALSE, !.run = NoRun]

\* FImGuiInputState::ResetState
ResetState(is) == ResetMouseState(ResetKeyboardState(is))

\* The listener a widget binds to its proxy's draw event (OnDebugDraw).
WidgetListener(n) == IF n = 1 THEN "OnDebugDraw1" ELSE "OnDebugDraw2"

\* The history of an UpdateInputMode call.
Updated(wd, is, bHasKeyboardFocus, bHasMousePointer) ==
    [called |-> TRUE, focus |-> bHasKeyboardFocus, pointer |-> bHasMousePointer,
     from |-> wd.InputMode,
     KeysDown |-> is.KeysDown, MouseButtonsDown |-> is.MouseButtonsDown,
     mods |-> <<is.bIsControlDown, is.bIsShiftDown, is.bIsAltDown>>,
     MousePosition |-> is.MousePosition]

UpdateInputMode_FullResetOnly(wd, is, bHasKeyboardFocus, bHasMousePointer) ==
    LET NewInputMode == IF bHasKeyboardFocus THEN "MouseAndKeyboard"
                        ELSE IF bHasMousePointer THEN "MousePointerOnly"
                        ELSE "None"
        is1 == IF wd.InputMode # NewInputMode
                  /\ (NewInputMode = "None" \/ wd.InputMode = "MouseAndKeyboard")
               THEN ResetState(is)
               ELSE is
        wd1 == IF wd.InputMode # NewInputMode
               THEN [wd EXCEPT !.InputMode = NewInputMode,
                               !.bReceivedMouseEvent = FALSE]
               ELSE wd
    IN  [wd |-> [wd1 EXCEPT !.upd = Updated(wd, is, bHasKeyboardFocus, bHasMousePointer)],
         is |-> SetMousePointer(is1, bHasMousePointer /\ DrawMouseCursor > 0)]

\* SImGuiWidget::UpdateInputMode, on the widget's members and its input state.
UpdateInputMode(wd, is, bHasKeyboardFocus, bHasMousePointer) ==
    LET NewInputMode == IF bHasKeyboardFocus THEN "MouseAndKeyboard"
                        ELSE IF bHasMousePointer THEN "MousePointerOnly"
                        ELSE "None"
        is1 == IF wd.InputMode # NewInputMode
               THEN IF NewInputMode = "None" THEN ResetState(is)
                    ELSE IF wd.InputMode = "MouseAndKeyboard" THEN ResetKeyboardState(is)
                    ELSE is
               ELSE is
        wd1 == IF wd.InputMode # NewInputMode
               THEN [wd EXCEPT !.InputMode = NewInputMode,
                               !.bReceivedMouseEvent = FALSE]
               ELSE wd
    IN  [wd |-> [wd1 EXCEPT !.upd = Updated(wd, is, bHasKeyboardFocus, bHasMousePointer)],
         is |-> SetMousePointer(is1, bHasMousePointer /\ DrawMouseCursor > 0)]

\* SImGuiWidget::CopyModifierKeys(const FPointerEvent&)
CopyModifierKeysOfPointer(wd, is, m) ==
    IF wd.InputMode = "MousePointerOnly" THEN CopyModifierKeys(is, m) ELSE is

\* The keys of key events: the two keys IgnoreKeyEvent looks for, and the others.
Keys == {"Tilde", "Escape", "Other"}

\* SImGuiWidget::IgnoreKeyEvent
IgnoreKeyEvent(w, wd, Key) ==
    CASE Key = "Tilde" -> TRUE
      [] Key = "Escape" ->
            LET ContextProxy == GetContextProxy(w, wd.ContextIndex)
            IN  ContextProxy = "-" \/ ~w.px[ContextProxy].bHasActiveItem
      [] OTHER -> FALSE

\* The widget's members when a handler starts: the history of the last handler
\* is forgotten.
WidgetOf(n) ==
    [Widgets[n] EXCEPT !.upd = NoUpdate, !.tick = NoTick, !.key = NoKeyEvent,
                       !.button = NoButtonEvent, !.index = NoKeyIndex, !.lookup = "-"]

\* No handler runs after a fatal failure.
NoFailure == \A n \in InputStates : Widgets[n].state # "failed"
LiveWidget(n) == NoFailure /\ Widgets[n].state = "live"

\* A widget whose proxy consumed a wheel delta in the operation, which is still
\* there after it, counts one more frame; with no delta left it counts none.
WheelFramesNext(wds, w2) ==
    [n \in InputStates |->
        LET consumed == \E i \in 1..Len(w2.tr) :
                            w2.tr[i].k = "CopyInput" /\ w2.tr[i].n = n
        IN  [wds[n] EXCEPT !.wheelFrames =
                IF w2.inp[n].MouseWheelDelta = 0 THEN 0
                ELSE IF consumed /\ Inputs[n].MouseWheelDelta > 0
                     THEN (IF @ < 2 THEN @ + 1 ELSE @)
                     ELSE @]]

WidgetCommit(name, p, w2, wds) ==
    /\ CommitWorld(name, p, w2)
    /\ Widgets' = WheelFramesNext(wds, w2)
    /\ UNCHANGED <<InputEnabled, ShowDemo, DrawMouseCursor, toggled, Registry>>

\* A handler that leaves widget n's members and input state as in r.
HandlerCommit(n, r) ==
    WidgetCommit("Widget", "-", [World EXCEPT !.inp[n] = r.is],
                 [Widgets EXCEPT ![n] = r.wd])

\* SImGuiWidget::Construct for the proxy at ContextIndex. Without a proxy there the
\* checkf fails (and without checks the null pointer is dereferenced).
ConstructWidget(n, ContextIndex) ==
    /\ NoFailure
    /\ Widgets[n].state = "absent"
    /\ LET wd == [NoWidget EXCEPT !.ContextIndex = ContextIndex, !.postUpdate = TRUE]
           ContextProxy == GetContextProxy(World, ContextIndex)
       IN  IF ContextProxy = "-"
           THEN WidgetCommit("Widget", "-", World,
                    [Widgets EXCEPT ![n] = [wd EXCEPT !.state = "failed",
                                                      !.lookup = "fatal"]])
           ELSE WidgetCommit("Widget", "-",
                    [World EXCEPT
                        !.px[ContextProxy].DrawEvent = Append(@, WidgetListener(n)),
                        !.px[ContextProxy].calls[WidgetListener(n)] =
                            Due(Proxies[ContextProxy]),
                        !.px[ContextProxy].InputState = n],
                    [Widgets EXCEPT ![n] = [wd EXCEPT !.state = "live",
                                                      !.lookup = "found"]])

DestroyWidget_KeepsInputState(n) ==
    /\ LiveWidget(n)
    /\ LET ContextProxy == GetContextProxy(World, Widgets[n].ContextIndex)
           w1 == IF ContextProxy # "-"
                 THEN [World EXCEPT
                          !.px[ContextProxy].DrawEvent = Remove(@, WidgetListener(n)),
                          !.px[ContextProxy].calls[WidgetListener(n)] = 0]
                 ELSE World
       IN  WidgetCommit("Widget", "-", [w1 EXCEPT !.inp[n] = NewInputState],
                [Widgets EXCEPT ![n] =
                    [NoWidget EXCEPT !.lookup =
                        IF ContextProxy # "-" THEN "found" ELSE "absent"]])

DestroyWidget_KeepsDrawCallback(n) ==
    /\ LiveWidget(n)
    /\ LET ContextProxy == GetContextProxy(World, Widgets[n].ContextIndex)
           w1 == IF ContextProxy # "-"
                 THEN [World EXCEPT
                          !.px[ContextProxy].InputState =
                              IF @ = n THEN NoInputState ELSE @]
                 ELSE World
       IN  WidgetCommit("Widget", "-", [w1 EXCEPT !.inp[n] = NewInputState],
                [Widgets EXCEPT ![n] =
                    [NoWidget EXCEPT !.lookup =
                        IF ContextProxy # "-" THEN "found" ELSE "absent"]])

\* SImGuiWidget::~SImGuiWidget: the bindings to the proxy are removed when the
\* proxy is still there, the registration on the post-update event always.
DestroyWidget(n) ==
    /\ LiveWidget(n)
    /\ LET ContextProxy == GetContextProxy(World, Widgets[n].ContextIndex)
           w1 == IF ContextProxy # "-"
                 THEN [World EXCEPT
                          !.px[ContextProxy].DrawEvent = Remove(@, WidgetListener(n)),
                          !.px[ContextProxy].calls[WidgetListener(n)] = 0,
                          !.px[ContextProxy].InputState =
                              IF @ = n THEN NoInputState ELSE @]
                 ELSE World
       IN  WidgetCommit("Widget", "-", [w1 EXCEPT !.inp[n] = NewInputState],
                [Widgets EXCEPT ![n] =
                    [NoWidget EXCEPT !.lookup =
                        IF ContextProxy # "-" THEN "found" ELSE "absent"]])

\* SImGuiWidget::OnFocusReceived
OnFocusReceived(n, bIsDirectlyHovered) ==
    /\ LiveWidget(n)
    /\ HandlerCommit(n, UpdateInputMode(WidgetOf(n), Inputs[n], TRUE, bIsDirectlyHovered))

\* SImGuiWidget::OnFocusLost
OnFocusLost(n, bIsDirectlyHovered) ==
    /\ LiveWidget(n)
    /\ HandlerCommit(n, UpdateInputMode(WidgetOf(n), Inputs[n], FALSE, bIsDirectlyHovered))

\* SImGuiWidget::OnMouseEnter: with an input mode every mouse button is set from
\* the event.
OnMouseEnter(n, bHasKeyboardFocus, buttons) ==
    /\ LiveWidget(n)
    /\ LET is1 == IF Widgets[n].InputMode # "None"
                  THEN [Accumulated(Inputs[n]) EXCEPT
                           !.MouseButtonsDown = buttons,
                           !.MouseButtonsUpdateRange = <<0, NumButtons>>,
                           !.touchedButtons = MouseIndices]
                  ELSE Inputs[n]
       IN  HandlerCommit(n, UpdateInputMode(WidgetOf(n), is1, bHasKeyboardFocus, TRUE))

\* SImGuiWidget::OnMouseLeave
OnMouseLeave(n, bHasKeyboardFocus) ==
    /\ LiveWidget(n)
    /\ HandlerCommit(n, UpdateInputMode(WidgetOf(n), Inputs[n], bHasKeyboardFocus, FALSE))

\* The history of the key event a handler of widget n is called with.
KeyEvent(n, kind, i, Key, bConsoleOpened, reply) ==
    [kind |-> kind, i |-> i, Key |-> Key, console |-> bConsoleOpened,
     was |-> Inputs[n].KeysDown[i], reply |-> reply]

\* SImGuiWidget::OnKeyDown
OnKeyDown(n, i, Key, m, bConsoleOpened) ==
    /\ LiveWidget(n)
    /\ LET wd == [WidgetOf(n) EXCEPT !.lookup =
                     IF bConsoleOpened \/ Key # "Escape" THEN "-"
                     ELSE IF GetContextProxy(World, Widgets[n].ContextIndex) = "-"
                          THEN "absent" ELSE "found"]
           bIgnored == bConsoleOpened \/ IgnoreKeyEvent(World, wd, Key)
           reply == IF bIgnored \/ Key = "Tilde" THEN "Unhandled" ELSE "Handled"
       IN  HandlerCommit(n,
              [wd |-> [wd EXCEPT !.key = KeyEvent(n, "down", i, Key, bConsoleOpened, reply)],
               is |-> IF bIgnored
                      THEN Inputs[n]
                      ELSE CopyModifierKeys(SetKeyDown(Inputs[n], i, TRUE), m)])

OnKeyUp_Filtered(n, i, Key, m, bConsoleOpened) ==
    /\ LiveWidget(n)
    /\ LET bIgnored == bConsoleOpened \/ IgnoreKeyEvent(World, Widgets[n], Key)
       IN  HandlerCommit(n,
              [wd |-> [WidgetOf(n) EXCEPT !.key =
                          KeyEvent(n, "up", i, Key, bConsoleOpened,
                                   IF bConsoleOpened THEN "Unhandled" ELSE "Handled")],
               is |-> IF bIgnored
                      THEN Inputs[n]
                      ELSE CopyModifierKeys(SetKeyDown(Inputs[n], i, FALSE), m)])

\* SImGuiWidget::OnKeyUp
OnKeyUp(n, i, Key, m, bConsoleOpened) ==
    /\ LiveWidget(n)
    /\ HandlerCommit(n,
          [wd |-> [WidgetOf(n) EXCEPT !.key =
                      KeyEvent(n, "up", i, Key, bConsoleOpened,
                               IF bConsoleOpened THEN "Unhandled" ELSE "Handled")],
           is |-> CopyModifierKeys(SetKeyDown(Inputs[n], i, FALSE), m)])

\* SImGuiWidget::OnMouseButtonDown, OnMouseButtonDoubleClick (bIsDown) and
\* OnMouseButtonUp
OnMouseButton(n, i, bIsDown, m) ==
    /\ LiveWidget(n)
    /\ HandlerCommit(n,
          [wd |-> WidgetOf(n),
           is |-> CopyModifierKeysOfPointer(Widgets[n],
                                            SetMouseDown(Inputs[n], i, bIsDown), m)])

\* The keys of the host with the codes FInputKeyManager::GetCodesFromKey finds for
\* them: a key code, a character code, both or neither (a gamepad button).
FKeys ==
    {[Key |-> "Escape", pKeyCode |-> TRUE, KeyCode |-> 1, pCharCode |-> FALSE, CharCode |-> 0],
     [Key |-> "A", pKeyCode |-> TRUE, KeyCode |-> 0, pCharCode |-> TRUE, CharCode |-> 1],
     [Key |-> "Quote", pKeyCode |-> FALSE, KeyCode |-> 0, pCharCode |-> TRUE, CharCode |-> 1],
     [Key |-> "Gamepad", pKeyCode |-> FALSE, KeyCode |-> 0, pCharCode |-> FALSE, CharCode |-> 0]}

\* ImGuiInterops::GetKeyIndex. checkf(false) ends the program in a build with checks
\* (DO_CHECK); a build without them goes on to return -1, the largest uint32, kept
\* as -1 here.
GetKeyIndex(Key, bDoCheck) ==
    IF Key.pKeyCode THEN [fatal |-> FALSE, Index |-> Key.KeyCode]
    ELSE IF Key.pCharCode THEN [fatal |-> FALSE, Index |-> Key.CharCode]
    ELSE IF bDoCheck THEN [fatal |-> TRUE, Index |-> -1]
    ELSE [fatal |-> FALSE, Index |-> -1]

\* SImGuiWidget::OnKeyUp for the key of the event: the index is looked up and passed
\* to SetKeyDown. The input state of the model keeps the keys in KeyIndices; a call
\* for another index is recorded in the history.
OnKeyUpEvent(n, Key, m, bDoCheck) ==
    /\ LiveWidget(n)
    /\ LET r == GetKeyIndex(Key, bDoCheck)
           wd == [WidgetOf(n) EXCEPT !.index =
                     [Key |-> Key.Key, codes |-> Key, fatal |-> r.fatal,
                      Index |-> r.Index]]
       IN  IF r.fatal
           THEN HandlerCommit(n, [wd |-> [wd EXCEPT !.state = "failed"],
                                  is |-> Inputs[n]])
           ELSE HandlerCommit(n,
                   [wd |-> wd,
                    is |-> IF r.Index \in KeyIndices
                           THEN CopyModifierKeys(SetKeyDown(Inputs[n], r.Index, FALSE), m)
                           ELSE CopyModifierKeys(Inputs[n], m)])

\* The buttons of mouse button events: the five ImGui knows, and any other.
MouseButtons == {"Left", "Middle", "Right", "Thumb", "Thumb2", "Invalid"}

\* ImGuiInterops::GetMouseIndex. The result is a uint32, so that the -1 of the last
\* return is the largest uint32; it is kept as -1 here, outside of every array as well.
GetMouseIndex(MouseButton) ==
    CASE MouseButton = "Left" -> 0
      [] MouseButton = "Middle" -> 2
      [] MouseButton = "Right" -> 1
      [] MouseButton = "Thumb" -> 3
      [] MouseButton = "Thumb2" -> 4
      [] OTHER -> -1

\* SImGuiWidget::OnMouseButtonDown, OnMouseButtonDoubleClick (bIsDown) and
\* OnMouseButtonUp for the button of the event. The input state of the model keeps
\* the buttons in MouseIndices; a call for another index is recorded in the history.
OnMouseButtonEvent(n, MouseButton, bIsDown, m) ==
    /\ LiveWidget(n)
    /\ LET Index == GetMouseIndex(MouseButton)
           is1 == IF Index \in MouseIndices
                  THEN SetMouseDown(Inputs[n], Index, bIsDown)
                  ELSE Inputs[n]
       IN  HandlerCommit(n,
              [wd |-> [WidgetOf(n) EXCEPT !.button =
                          [MouseButton |-> MouseButton, Index |-> Index,
                           bIsDown |-> bIsDown]],
               is |-> CopyModifierKeysOfPointer(Widgets[n], is1, m)])

\* SImGuiWidget::OnMouseWheel
OnMouseWheel(n, DeltaValue, m) ==
    /\ LiveWidget(n)
    /\ Inputs[n].MouseWheelDelta + DeltaValue <= MaxWheel
    /\ HandlerCommit(n,
          [wd |-> WidgetOf(n),
           is |-> CopyModifierKeysOfPointer(Widgets[n],
                      AddMouseWheelDelta(Inputs[n], DeltaValue), m)])

\* SImGuiWidget::OnMouseMove
OnMouseMove(n, Position, m) ==
    /\ LiveWidget(n)
    /\ HandlerCommit(n,
          [wd |-> [WidgetOf(n) EXCEPT !.bReceivedMouseEvent = TRUE],
           is |-> CopyModifierKeysOfPointer(Widgets[n],
                      SetMousePosition(Inputs[n], Position), m)])

\* The console sets ImGui.DrawMouseCursor.
SetDrawMouseCursor(v) ==
    /\ v # DrawMouseCursor
    /\ DrawMouseCursor' = v
    /\ UNCHANGED <<worldVars, nameVars, paint, InputEnabled, ShowDemo, toggled,
                   Registry, Widgets>>

\* One widget on one proxy: the handlers that change its input mode, and key,
\* mouse button and mouse move events.
ModeNext ==
    \/ ConstructProxy("A")
    \/ ConstructWidget(1, "A")
    \/ \E b \in BOOLEAN : OnFocusReceived(1, b)
    \/ \E b \in BOOLEAN : OnFocusLost(1, b)
    \/ \E b \in BOOLEAN, buttons \in [MouseIndices -> BOOLEAN] : OnMouseEnter(1, b, buttons)
    \/ \E b \in BOOLEAN : OnMouseLeave(1, b)
    \/ \E m \in ModifierValues : OnKeyDown(1, 0, "Other", m, FALSE)
    \/ \E m \in ModifierValues : OnMouseButton(1, 0, TRUE, m)
    \/ \E pos \in MousePositions, m \in ModifierValues : OnMouseMove(1, pos, m)
    \/ \E v \in CVarValues : SetDrawMouseCursor(v)

ModeSpec == Init /\ [][ModeNext]_vars

\* SImGuiWidget::UpdateMouseStatus
UpdateMouseStatus_ClearOnly(wd, is, bIsDirectlyHovered) ==
    IF wd.InputMode = "MousePointerOnly"
    THEN [wd |-> [wd EXCEPT !.bReceivedMouseEvent = FALSE], is |-> is]
    ELSE [wd |-> wd, is |-> is]

UpdateMouseStatus(wd, is, bIsDirectlyHovered) ==
    IF wd.InputMode = "MousePointerOnly"
    THEN LET r == IF ~wd.bReceivedMouseEvent
                  THEN UpdateInputMode([wd EXCEPT !.tick.mouse = TRUE], is,
                                       FALSE, bIsDirectlyHovered)
                  ELSE [wd |-> wd, is |-> is]
         IN  [wd |-> [r.wd EXCEPT !.bReceivedMouseEvent = FALSE], is |-> r.is]
    ELSE [wd |-> wd, is |-> is]

\* SImGuiWidget::UpdateInputEnabled. Taking the keyboard focus from the viewport
\* makes Slate call OnFocusReceived.
UpdateInputEnabled(wd, is, bHasKeyboardFocus, bIsDirectlyHovered, bIsForegroundWindow, bConsoleOpened, bViewportHasFocus) ==
    LET bEnabled == InputEnabled > 0
        r1 == IF wd.bInputEnabled # bEnabled
              THEN IF ~bEnabled
                   THEN UpdateInputMode([wd EXCEPT !.bInputEnabled = bEnabled,
                                                   !.tick.disabled = TRUE],
                                        is, FALSE, FALSE)
                   ELSE [wd |-> [wd EXCEPT !.bInputEnabled = bEnabled], is |-> is]
              ELSE [wd |-> wd, is |-> is]
        r2 == IF r1.wd.bInputEnabled /\ ~bHasKeyboardFocus /\ ~bConsoleOpened
                 /\ bViewportHasFocus
              THEN UpdateInputMode([r1.wd EXCEPT !.tick.grabbed = TRUE], r1.is,
                                   TRUE, bIsDirectlyHovered)
              ELSE r1
    IN  IF r2.wd.bInputEnabled /\ ~bIsForegroundWindow
           /\ r2.wd.InputMode = "MouseAndKeyboard"
        THEN UpdateInputMode([r2.wd EXCEPT !.tick.background = TRUE], r2.is,
                             FALSE, bIsDirectlyHovered)
        ELSE r2

\* SImGuiWidget::Tick
WidgetTick(n, bHasKeyboardFocus, bIsDirectlyHovered, bIsForegroundWindow, bConsoleOpened, bViewportHasFocus) ==
    /\ LiveWidget(n)
    /\ LET r0 == UpdateMouseStatus([WidgetOf(n) EXCEPT !.tick.ran = TRUE,
                                                       !.tick.hovered = bIsDirectlyHovered],
                                   Inputs[n], bIsDirectlyHovered)
           r == [r0 EXCEPT !.wd.tick.afterMouse = r0.wd.InputMode]
           r2 == UpdateInputEnabled(r.wd, r.is, bHasKeyboardFocus, bIsDirectlyHovered,
                                    bIsForegroundWindow, bConsoleOpened,
                                    bViewportHasFocus)
       IN  WidgetCommit("WidgetTick", "-", [World EXCEPT !.inp[n] = r2.is],
                        [Widgets EXCEPT ![n] = r2.wd])

\* One widget on one proxy that is ticked while the input toggle is switched, the
\* focus and the mouse come and go and keys and buttons are pressed.
WidgetTickNext ==
    \/ ConstructProxy("A")
    \/ ConstructWidget(1, "A")
    \/ \E b \in BOOLEAN : SetInputModeCall(b)
    \/ \E f, h, g, c \in BOOLEAN : WidgetTick(1, f, h, g, c, TRUE)
    \/ \E b \in BOOLEAN, buttons \in [MouseIndices -> BOOLEAN] : OnMouseEnter(1, b, buttons)
    \/ \E b \in BOOLEAN : OnMouseLeave(1, b)
    \/ \E m \in ModifierValues : OnKeyDown(1, 0, "Other", m, FALSE)
    \/ \E m \in ModifierValues : OnMouseButton(1, 0, TRUE, m)
    \/ \E pos \in MousePositions : OnMouseMove(1, pos, <<FALSE, FALSE, FALSE>>)

WidgetTickSpec == Init /\ [][WidgetTickNext]_vars

\* FImGuiContextManager::Tick: every proxy of the registry is ticked.
ContextManagerTick(w) ==
    LET wa == IF w.px["A"].state = "live" THEN Tick(w, "A") ELSE w
    IN  IF wa.px["B"].state = "live" THEN Tick(wa, "B") ELSE wa

\* The Tick SImGuiWidget::OnPaint starts with; the painting that follows reads
\* the proxy's draw lists.
OnPaintTick(n) ==
    /\ LiveWidget(n)
    /\ LET ContextProxy == GetContextProxy(World, Widgets[n].ContextIndex)
           wds == [Widgets EXCEPT ![n] = [WidgetOf(n) EXCEPT !.lookup =
                      IF ContextProxy # "-" THEN "found" ELSE "absent"]]
       IN  IF ContextProxy # "-"
           THEN WidgetCommit("Tick", ContextProxy, Tick(World, ContextProxy), wds)
           ELSE WidgetCommit("Widget", "-", World, wds)

\* One frame of the engine: FImGuiModuleManager::Tick ticks the proxies and then
\* broadcasts the post-update event to the widgets; after the frame the engine
\* advances the frame counter.
EngineFrame ==
    /\ NoFailure
    /\ GFrameNumber < MaxFrame
    /\ LET w1 == ContextManagerTick(World)
           inp2 == [n \in InputStates |->
                      IF Widgets[n].postUpdate
                      THEN OnPostImGuiUpdateOf(w1.inp[n], Widgets[n].InputMode)
                      ELSE w1.inp[n]]
       IN  WidgetCommit("Frame", "-", [w1 EXCEPT !.inp = inp2, !.G = @ + 1],
                        [n \in InputStates |-> WidgetOf(n)])

\* One widget on one proxy through the frames of the engine, with mouse wheel
\* events and changes of the input mode.
FrameLoopNext ==
    \/ ConstructProxy("A")
    \/ ConstructWidget(1, "A")
    \/ \E m \in ModifierValues : OnMouseWheel(1, 1, m)
    \/ \E b \in BOOLEAN : OnFocusReceived(1, b)
    \/ \E b \in BOOLEAN : OnFocusLost(1, b)
    \/ OnPaintTick(1)
    \/ EngineFrame

FrameLoopSpec == Init /\ [][FrameLoopNext]_vars

\* SImGuiWidget::OnCursorQuery: the cursor of the proxy unless ImGui draws the
\* cursor itself or the proxy is missing.
OnCursorQuery(n) ==
    /\ LiveWidget(n)
    /\ LET ContextProxy == GetContextProxy(World, Widgets[n].ContextIndex)
           wd == IF DrawMouseCursor <= 0
                 THEN IF ContextProxy # "-"
                      THEN [WidgetOf(n) EXCEPT
                               !.CursorReply = Proxies[ContextProxy].MouseCursor,
                               !.lookup = "found"]
                      ELSE [WidgetOf(n) EXCEPT !.CursorReply = "None",
                                               !.lookup = "absent"]
                 ELSE [WidgetOf(n) EXCEPT !.CursorReply = "None"]
       IN  HandlerCommit(n, [wd |-> wd, is |-> Inputs[n]])

\* A widget constructed for a scope index with or without a proxy, a proxy that
\* comes and goes under the widget, and the handlers that look the proxy up.
LookupNext ==
    \/ AdvanceFrame
    \/ \E p \in ProxyIds : ConstructProxy(p)
    \/ DestroyProxy("A")
    \/ \E p \in ProxyIds : ConstructWidget(1, p)
    \/ DestroyWidget(1)
    \/ OnPaintTick(1)
    \/ OnCursorQuery(1)
    \/ OnKeyDown(1, 0, "Escape", <<FALSE, FALSE, FALSE>>, FALSE)
    \/ AddWorldImGuiDelegate("A", "Flag")
    \/ \E h \in Handles : RemoveImGuiDelegateCall(h)

LookupSpec == Init /\ [][LookupNext]_vars

\* The mouse button events of one widget in its input modes.
ButtonNext ==
    \/ ConstructProxy("A")
    \/ ConstructWidget(1, "A")
    \/ \E b \in BOOLEAN : OnFocusReceived(1, b)
    \/ \E b \in BOOLEAN, buttons \in [MouseIndices -> BOOLEAN] : OnMouseEnter(1, b, buttons)
    \/ \E b \in BOOLEAN : OnMouseLeave(1, b)
    \/ \E MouseButton \in MouseButtons, b \in BOOLEAN, m \in ModifierValues :
          OnMouseButtonEvent(1, MouseButton, b, m)

ButtonSpec == Init /\ [][ButtonNext]_vars

\* The key-up events of one widget for the keys of the host, after key-down events.
KeyIndexNext ==
    \/ ConstructProxy("A")
    \/ ConstructWidget(1, "A")
    \/ \E b \in BOOLEAN : OnFocusReceived(1, b)
    \/ \E i \in KeyIndices, m \in ModifierValues : OnKeyDown(1, i, "Other", m, FALSE)
    \/ \E Key \in FKeys, m \in ModifierValues, bDoCheck \in BOOLEAN :
          OnKeyUpEvent(1, Key, m, bDoCheck)

KeyIndexSpec == Init /\ [][KeyIndexNext]_vars

\* The key events of one widget, with the console open or closed, on a proxy that
\* comes and goes and whose text field can be the active item.
KeyEvents == {<<0, "Other">>, <<NumKeys - 1, "Escape">>, <<NumKeys - 1, "Tilde">>}
KeyNext ==
    \/ AdvanceFrame
    \/ ConstructProxy("A")
    \/ DestroyProxy("A")
    \/ ConstructWidget(1, "A")
    \/ AddOwn("A", "Widget")
    \/ TickProxy("A")
    \/ \E e \in KeyEvents, c \in BOOLEAN :
          OnKeyDown(1, e[1], e[2], <<FALSE, FALSE, FALSE>>, c)
    \/ \E e \in KeyEvents, c \in BOOLEAN :
          OnKeyUp(1, e[1], e[2], <<FALSE, FALSE, FALSE>>, c)

KeySpec == Init /\ [][KeyNext]_vars

\* Two widgets that come and go on one proxy, which comes and goes itself, next to
\* a listener of the module on the same draw event.
WidgetLifeNext ==
    \/ ConstructProxy("A")
    \/ DestroyProxy("A")
    \/ \E n \in InputStates : ConstructWidget(n, "A")
    \/ \E n \in InputStates : DestroyWidget(n)
    \/ \E n \in InputStates : OnPaintTick(n)
    \/ AddOwn("A", "Flag")
    \/ EngineFrame

WidgetLifeSpec == Init /\ [][WidgetLifeNext]_vars

-----------------------------------------------------------------------------
(* FImGuiContextManager: the registry of the proxies of the worlds. *)

\* The index of a scope: the one it has, or else the first free slot.
FreeIndices == {p \in ProxyIds : \A s \in Scopes : Registry.index[s] # p}
GetWorldContextIndex(s) ==
    IF Registry.index[s] # "-" THEN Registry.index[s]
    ELSE IF "A" \in FreeIndices THEN "A" ELSE "B"

\* FImGuiModule::AddWorldImGuiDelegate called from world s: the proxy of the world
\* is looked up or created, the delegate is added to its draw event and the handle
\* takes the index the context manager gave.
AddWorldImGuiDelegateFrom(s, l) ==
    /\ ModuleManager
    /\ l \notin AllRegistered \cup HandleIds
    /\ Cardinality(AllRegistered) < MaxCallbacks
    /\ Registry.index[s] # "-" \/ (FreeIndices # {} /\ NextContext <= MaxContexts)
    /\ LET Index == GetWorldContextIndex(s)
           w1 == GetWorldContextProxy(World, Index)
       IN  /\ CommitWorld("AddWorldImGuiDelegate", Index,
                  [w1 EXCEPT !.px[Index].DrawEvent = Append(@, l),
                             !.px[Index].calls[l] = Due(w1.px[Index]),
                             !.hs = @ \cup {WorldDelegateHandle(l, Index)}])
           /\ Registry' = [Registry EXCEPT
                             !.index[s] = Index,
                             !.on[l] = [scope |-> s, Context |-> w1.px[Index].Context]]
           /\ UNCHANGED <<InputEnabled, ShowDemo, DrawMouseCursor, toggled, Widgets>>

\* The context manager destroys the proxy of world s and frees its slot.
DestroyScope(s) ==
    /\ Registry.index[s] # "-"
    /\ LET Index == Registry.index[s]
       IN  /\ CommitWorld("Destroy", Index,
                  [Destructor(World, Index) EXCEPT !.px[Index] = AbsentProxy])
           /\ Registry' = [Registry EXCEPT !.index[s] = "-"]
           /\ UNCHANGED <<InputEnabled, ShowDemo, DrawMouseCursor, toggled, Widgets>>

\* Worlds that register delegates and go, and clients that remove delegates by
\* the handles they hold.
RegistryNext ==
    \/ \E s \in Scopes, l \in ListenerPool : AddWorldImGuiDelegateFrom(s, l)
    \/ \E s \in Scopes : DestroyScope(s)
    \/ \E h \in Handles : RemoveImGuiDelegateCall(h)

RegistrySpec == Init /\ [][RegistryNext]_vars

\* The module's toggle interface and the console.
ToggleNext ==
    \/ \E b \in BOOLEAN : SetInputModeCall(b)
    \/ ToggleInputModeCall
    \/ \E b \in BOOLEAN : SetShowDemoCall(b)
    \/ ToggleShowDemoCall
    \/ \E v \in ToggleValues : ConsoleSetInputEnabled(v)
    \/ \E v \in ToggleValues : ConsoleSetShowDemo(v)

ToggleSpec == Init /\ [][ToggleNext]_vars

-----------------------------------------------------------------------------

(* Properties. *)

Events(k) == {i \in 1..Len(trace) : trace[i].k = k}
Alive(c) == c = DefaultContext \/ (c \in ContextIds /\ Contexts[c].alive)

\* C1: a Tick made at the counter value of the previous Tick call on the same proxy
\* (the counter never decreases) changes neither the frame-started flag nor the
\* draw-called flag, fires no draw callback and captures no draw lists.
C1_SameCounterTickIsNoOp ==
    (op.name = "Tick" /\ op.sameG) =>
        /\ Proxies[op.p].bIsFrameStarted = op.started
        /\ Proxies[op.p].bIsDrawCalled = op.drawCalled
        /\ Events("Callback") = {}
        /\ Events("Capture") = {}

\* A second Tick at a counter value above 0, with a listener bound that a processed
\* Tick would fire.
C1_Witness ==
    /\ op.name = "Tick" /\ op.sameG /\ GFrameNumber > 0
    /\ Registered(World, op.p) # {}
    /\ op.started /\ ~op.drawCalled

\* C2: in every frame that an EndFrame finalizes, every registered draw callback
\* was invoked exactly once, whatever mix of manual Draw() and Tick calls occurred
\* and also when a callback itself calls Draw() or Tick() on the same proxy.
C2_EveryCallbackOncePerFrame ==
    \A i \in Events("EndFrame") : trace[i].b

\* C3: EndFrame and Draw are no-ops when no frame is started, BeginFrame is a no-op
\* when a frame is started: no library call, no callback, the proxy's members (flags,
\* draw lists) and the library state unchanged.
C3_GuardedMethodsAreNoOps ==
    ( \/ (op.name \in {"EndFrame", "Draw"} /\ ~op.started)
      \/ (op.name = "BeginFrame" /\ op.started) )
    => (trace = <<>> /\ op.kept /\ op.libKept)

\* BeginFrame called in a started frame whose Draw was called, with an input state bound.
C3_Witness ==
    /\ op.name = "BeginFrame" /\ op.started /\ op.drawCalled /\ op.bound
    /\ Proxies[op.p].bIsDrawCalled

\* C4: BeginFrame copies the bound input state exactly when it starts a frame, right
\* before the library frame starts: every NewFrame of a proxy with an input state
\* bound directly follows one CopyInput of that state into the same context, no
\* NewFrame of a proxy without one follows a CopyInput, every CopyInput is followed
\* by the NewFrame, a BeginFrame in a started frame copies and starts nothing, and a
\* BeginFrame that starts a frame leaves frame-started true and draw-called false.
C4_InputAppliedOncePerFrame ==
    /\ \A i \in Events("NewFrame") :
          IF Proxies[trace[i].p].InputState # NoInputState
          THEN /\ i > 1
               /\ trace[i - 1].k = "CopyInput"
               /\ trace[i - 1].p = trace[i].p
               /\ trace[i - 1].c = trace[i].c
               /\ trace[i - 1].n = Proxies[trace[i].p].InputState
          ELSE i = 1 \/ trace[i - 1].k # "CopyInput"
    /\ \A i \in Events("CopyInput") : i < Len(trace) /\ trace[i + 1].k = "NewFrame"
    /\ op.name = "BeginFrame" =>
          IF op.started THEN trace = <<>>
          ELSE /\ Cardinality(Events("NewFrame")) = 1
               /\ Cardinality(Events("CopyInput")) = (IF op.bound THEN 1 ELSE 0)
               /\ Proxies[op.p].bIsFrameStarted
               /\ ~Proxies[op.p].bIsDrawCalled

\* A BeginFrame that started a frame with an input state bound, after a frame whose
\* Draw was called.
C4_Witness ==
    /\ op.name = "BeginFrame" /\ ~op.started /\ op.bound /\ op.drawCalled
    /\ Events("CopyInput") # {}

\* C5: in every Draw that fires callbacks, the callbacks of the shared list all run
\* before those of the proxy's own list when the ordering flag is > 0 at that Draw,
\* and all after them otherwise.
C5_SharedBeforeOrAfterOwn ==
    \A i \in Events("Callback"), j \in Events("Callback") :
        (trace[i].d = trace[j].d /\ trace[i].l = "shared" /\ trace[j].l = "own") =>
            IF DebugDrawOnWorldTick > 0 THEN i < j ELSE j < i

\* A Draw with the flag > 0 that fired a shared and an own callback.
C5_Witness ==
    /\ DebugDrawOnWorldTick > 0
    /\ \E i \in Events("Callback"), j \in Events("Callback") :
          trace[i].d = trace[j].d /\ trace[i].l = "shared" /\ trace[j].l = "own"

\* C6: after construction and the registration of one draw callback, N Ticks with
\* the frame counter advanced before each have invoked the callback exactly N times
\* and produced exactly N draw list captures.
C6_NTicksNCallbacksNCaptures ==
    \A p \in ProxyIds :
        scenario[p].on => (scenario[p].cb = scenario[p].n /\ scenario[p].cap = scenario[p].n)

\* Two such Ticks were made.
C6_Witness == \E p \in ProxyIds : scenario[p].on /\ scenario[p].n = 2

\* C7: whenever a proxy's Tick renders, captures, snapshots the active-item and
\* cursor state or starts the next frame, the current context is that proxy's own,
\* also after a draw callback of that Tick made another proxy current.
C7_TickOnOwnContext ==
    op.name = "Tick" =>
        \A i \in 1..Len(trace) :
            trace[i].k \in {"Render", "Capture", "Snapshot", "NewFrame"} =>
                trace[i].c = Proxies[trace[i].p].Context

\* C8: the current-context pointer never designates a destroyed context: it is the
\* default context or a live one, it is the default context right after a proxy with
\* a context is destroyed, every library call of a later operation acts on a live
\* context, and a proxy that re-asserts itself makes its own, live context current.
C8_CurrentContextValid ==
    /\ Alive(GImGui)
    /\ (op.name = "Destroy" /\ op.hadContext) => GImGui = DefaultContext
    /\ op.name # "Destroy" => \A i \in 1..Len(trace) : Alive(trace[i].c)
    /\ op.name \in {"Tick", "Draw"} =>
          \A i \in Events("SetCurrent") :
              trace[i].c = Proxies[trace[i].p].Context /\ trace[i].c \in ContextIds

\* A processed Tick of a proxy after another proxy's context was destroyed.
C8_Witness ==
    /\ op.name = "Tick" /\ Events("Render") # {}
    /\ \E c \in ContextIds : c < NextContext /\ ~Contexts[c].alive

\* C9: destroying a proxy that holds a context makes the context current, saves its
\* settings to the path installed in the context at construction, destroys the
\* context, in this order and once each (and then restores the default context); a
\* proxy that holds none calls nothing.
C9_DestructionSequence ==
    op.name = "Destroy" =>
        IF op.hadContext
        THEN /\ Len(trace) = 4
             /\ trace[1].k = "SetCurrent" /\ trace[1].c \in ContextIds
             /\ trace[2].k = "SaveIniSettings" /\ trace[2].c = trace[1].c
             /\ trace[3].k = "DestroyContext" /\ trace[3].c = trace[1].c
             /\ trace[2].path = trace[3].path /\ trace[2].path # <<>>
             /\ trace[4].k = "SetCurrent" /\ trace[4].c = DefaultContext
             /\ ~Contexts[trace[1].c].alive
        ELSE trace = <<>> /\ op.libKept

\* The destruction of a proxy that was moved into its slot.
C9_Witness ==
    /\ op.name = "Destroy" /\ op.hadContext
    /\ \E p \in ProxyIds : Proxies[p].state = "moved"

\* C10: two proxies constructed with distinct names have distinct settings paths.
C10_DistinctNamesDistinctPaths ==
    (iniA # <<>> /\ iniB # <<>> /\ nameA # nameB) => iniA # iniB

\* C11: a callback registered on a proxy's own draw event is invoked only by that
\* proxy's Draw, never by the Draw of the other proxy, and registering or removing
\* a callback on one proxy leaves the own callback list of the other unchanged.
C11_OwnCallbacksStayOwn ==
    /\ [](\A i \in Events("Callback") :
             trace[i].l = "own" =>
                /\ trace[i].x \in Range(Proxies[trace[i].p].DrawEvent)
                /\ trace[i].x \notin Range(Proxies[Other(trace[i].p)].DrawEvent))
    /\ [][\A p \in ProxyIds :
             (op'.name \in {"AddOwn", "Remove", "AddWorldImGuiDelegate",
                            "RemoveImGuiDelegate"}
                 /\ Proxies'[p].DrawEvent # Proxies[p].DrawEvent)
             => Proxies'[Other(p)].DrawEvent = Proxies[Other(p)].DrawEvent]_vars

\* A Draw fired an own callback of its proxy while the other proxy had one bound too.
C11_Witness ==
    \E i \in Events("Callback") :
        trace[i].l = "own" /\ Proxies[Other(trace[i].p)].DrawEvent # <<>>

\* C12: in every frame of every proxy, each callback of the shared (multi-context)
\* delegate is invoked exactly once by that proxy's Draw.
C12_SharedOncePerFrameOfEveryProxy ==
    \A i \in Events("EndFrame") : trace[i].s

\* C13: RemoveImGuiDelegate(handle) removes exactly the registration of the handle:
\* from the shared delegate for a multi-context handle, else from the own delegate
\* of the proxy at the handle's index, all other registrations staying in place and
\* in order; with no manager or no proxy at the index it changes nothing; and every
\* Draw invokes exactly the callbacks registered (and not removed) at that time.
C13_RemoveByHandle ==
    /\ [](\A i \in Events("Draw") :
             {trace[j].x : j \in {k \in Events("Callback") : trace[k].d = trace[i].d}}
                 = Registered(World, trace[i].p))
    /\ [][op'.name = "RemoveImGuiDelegate" =>
            LET h == trace'[1]
                multi == h.l = "MultiContext"
            IN  IF ModuleManager /\ (multi \/ Proxies[h.p].state = "live")
                THEN /\ SharedDrawEvent' =
                          IF multi THEN Remove(SharedDrawEvent, h.x) ELSE SharedDrawEvent
                     /\ \A p \in ProxyIds :
                          Proxies'[p].DrawEvent =
                              IF ~multi /\ p = h.p THEN Remove(Proxies[p].DrawEvent, h.x)
                              ELSE Proxies[p].DrawEvent
                     /\ h.x \notin (Range(SharedDrawEvent')
                                      \cup UNION {Range(Proxies'[p].DrawEvent) : p \in ProxyIds})
                ELSE /\ SharedDrawEvent' = SharedDrawEvent
                     /\ Proxies' = Proxies
                     /\ Contexts' = Contexts /\ GImGui' = GImGui
                     /\ ModuleManager' = ModuleManager]_vars

\* A handle's registration was removed from an own delegate that keeps another one,
\* while the shared delegate is empty.
C13_Witness ==
    /\ op.name = "RemoveImGuiDelegate" /\ ModuleManager
    /\ trace[1].l = "Default" /\ Proxies[trace[1].p].state = "live"
    /\ Proxies[trace[1].p].DrawEvent # <<>>
    /\ trace[1].x \notin HandleIds

\* C14: every EndFrame that finalizes a frame replaces the proxy's draw lists by
\* the command lists of that frame: as many captured lists as native ones, captured
\* list i holding the data of native list i of the rendered context, none when the
\* library produced none, and nothing of an earlier frame left.
C14_CaptureReplacesDrawLists ==
    \A i \in Events("Capture") :
        (\A j \in Events("Capture") : j <= i) =>
            /\ i > 1 /\ trace[i - 1].k = "Render" /\ trace[i - 1].c = trace[i].c
            /\ Proxies[trace[i].p].DrawLists =
                  [j \in 1..Len(trace[i - 1].path) |->
                      [c |-> trace[i].c, data |-> trace[i - 1].path[j]]]

\* A frame without draw data was captured after a frame with two command lists.
C14_Witness ==
    /\ op.name = "Tick" /\ Events("Capture") # {}
    /\ Proxies[op.p].DrawLists = <<>>
    /\ op.hadLists = 2

\* C15: the loop over the commands of a draw list with K indices requests
\* consecutive index ranges that start at 0 and do not overlap, never fails, has
\* received a prefix of the index sequence at every step, and at its end the ranges
\* cover [0, K), the indices received are the original index sequence and the
\* element counts of the commands sum up to K.
C15_CommandRangesCoverIndices ==
    paint.pc = "commands" =>
        LET idx == paint.DrawList.ImGuiIndexBuffer
            n == Len(paint.ranges)
            end == IF n = 0 THEN 0 ELSE paint.ranges[n][1] + paint.ranges[n][2]
        IN  /\ ~paint.fatal
            /\ n = paint.CommandNb
            /\ \A i \in 1..n :
                  paint.ranges[i][1] =
                      IF i = 1 THEN 0 ELSE paint.ranges[i - 1][1] + paint.ranges[i - 1][2]
            /\ Len(paint.emitted) = end
            /\ paint.emitted = SubSeq(idx, 1, end)
            /\ paint.CommandNb = NumCommands(paint.DrawList) =>
                  /\ end = Len(idx)
                  /\ paint.emitted = idx
                  /\ SumElemCount(paint.DrawList.ImGuiCommandBuffer) = Len(idx)

\* The loop over two commands that both have elements is through.
C15_Witness ==
    /\ paint.pc = "commands" /\ paint.CommandNb = 2
    /\ NumCommands(paint.DrawList) = 2
    /\ paint.ranges[1][2] > 0 /\ paint.ranges[2][2] > 0

\* C16: CopyIndexData with start + count above the number of recorded indices
\* fails fatally and leaves the target buffer as it was; otherwise it replaces the
\* target buffer by exactly the count indices that begin at start.
C16_CopyIndexDataChecksRange ==
    paint.pc = "called" =>
        LET idx == paint.DrawList.ImGuiIndexBuffer
            start == paint.req[1]
            count == paint.req[2]
        IN  IF start + count > Len(idx)
            THEN paint.fatal /\ paint.IndexBuffer = paint.before
            ELSE /\ ~paint.fatal
                 /\ Len(paint.IndexBuffer) = count
                 /\ \A i \in 1..count : paint.IndexBuffer[i] = idx[start + i]

\* A call beyond the recorded indices, with a target buffer that held indices.
C16_Witness ==
    /\ paint.pc = "called" /\ paint.fatal /\ paint.before # <<>>
    /\ paint.req[1] + paint.req[2] = Len(paint.DrawList.ImGuiIndexBuffer) + 1

\* C17: CopyVertexData with offset (dx, dy) gives as many vertices as captured, in
\* the same order, each at the captured position plus (dx, dy) with texture
\* coordinates and colour as captured; the captured draw list is never modified.
C17_VerticesShiftedByOffset ==
    /\ [](paint.emissions > 0 =>
            LET vtx == paint.DrawList.ImGuiVertexBuffer
            IN  /\ Len(paint.VertexBuffer) = Len(vtx)
                /\ \A i \in 1..Len(vtx) :
                      /\ paint.VertexBuffer[i].Position[1] = vtx[i].pos[1] + paint.Offset[1]
                      /\ paint.VertexBuffer[i].Position[2] = vtx[i].pos[2] + paint.Offset[2]
                      /\ paint.VertexBuffer[i].TexCoords = vtx[i].uv
                      /\ paint.VertexBuffer[i].Color = vtx[i].col)
    /\ [][paint'.DrawList = paint.DrawList]_vars

\* A second emission, with another offset than the first, of two different vertices.
C17_Witness ==
    /\ paint.emissions = 2 /\ paint.Offset # <<0, 0>>
    /\ Len(paint.VertexBuffer) = 2
    /\ paint.VertexBuffer[1] # paint.VertexBuffer[2]

\* The CopyInput entries of the last operation that consumed input state n.
Consumed(n) == {e \in Events("CopyInput") : trace[e].n = n}

\* C18: every key index that SetKeyDown set (down or up) since the update state was
\* last cleared lies in the keys dirty range, and a Tick that consumes the input
\* state leaves the IO of the context with the input state's value at that index;
\* the same for the mouse button indices set by SetMouseDown.
C18_SetEntriesReachTheTarget ==
    \A n \in InputStates :
        /\ \A i \in Inputs[n].touchedKeys : InRange(Inputs[n].KeysUpdateRange, i)
        /\ \A i \in Inputs[n].touchedButtons :
               InRange(Inputs[n].MouseButtonsUpdateRange, i)
        /\ op.name = "Tick" =>
               \A e \in Consumed(n) :
                   /\ \A i \in Inputs[n].touchedKeys :
                          Contexts[trace[e].c].KeysDown[i] = Inputs[n].KeysDown[i]
                   /\ \A i \in Inputs[n].touchedButtons :
                          Contexts[trace[e].c].MouseDown[i] = Inputs[n].MouseButtonsDown[i]

\* A Tick consumed input state 1 after the last key was set down and mouse button 0 was set
\* down and up again: the IO shows that key down, and key 0, never set, not down.
C18_Witness ==
    /\ op.name = "Tick" /\ Consumed(1) # {}
    /\ Inputs[1].touchedKeys = {NumKeys - 1} /\ Inputs[1].KeysDown[NumKeys - 1]
    /\ Inputs[1].touchedButtons = {0} /\ ~Inputs[1].MouseButtonsDown[0]
    /\ \A e \in Consumed(1) :
           /\ Contexts[trace[e].c].KeysDown[NumKeys - 1]
           /\ ~Contexts[trace[e].c].KeysDown[0]
           /\ ~Contexts[trace[e].c].MouseDown[0]

\* C19: while nothing was accumulated since ClearUpdateState, the keys and the mouse
\* buttons dirty ranges are empty, and a Tick that consumes the input state leaves
\* every key and mouse button entry of the IO as it was, while the modifier flags,
\* the mouse position and the pointer flag of the IO are those of the input state.
C19_ClearedStateCopiesNoEntries ==
    \A n \in InputStates :
        Inputs[n].clean =>
            /\ IsEmpty(Inputs[n].KeysUpdateRange)
            /\ IsEmpty(Inputs[n].MouseButtonsUpdateRange)
            /\ op.name = "Tick" =>
                   \A e \in Consumed(n) :
                       /\ trace[e].b
                       /\ Contexts[trace[e].c].KeyCtrl = Inputs[n].bIsControlDown
                       /\ Contexts[trace[e].c].KeyShift = Inputs[n].bIsShiftDown
                       /\ Contexts[trace[e].c].KeyAlt = Inputs[n].bIsAltDown
                       /\ Contexts[trace[e].c].MousePos = Inputs[n].MousePosition
                       /\ Contexts[trace[e].c].MouseDrawCursor = Inputs[n].bHasMousePointer

\* Key 0, mouse button 0, modifiers, a position and the pointer were set and cleared
\* before any Tick consumed them: the Tick that follows leaves key 0 and button 0
\* of the IO not down and writes the modifiers, the position and the pointer flag.
C19_Witness ==
    /\ op.name = "Tick" /\ Consumed(1) # {} /\ Inputs[1].clean
    /\ Inputs[1].KeysDown[0] /\ Inputs[1].MouseButtonsDown[0]
    /\ \A e \in Consumed(1) :
           /\ ~Contexts[trace[e].c].KeysDown[0] /\ ~Contexts[trace[e].c].MouseDown[0]
           /\ Contexts[trace[e].c].KeyCtrl /\ ~Contexts[trace[e].c].KeyShift
           /\ Contexts[trace[e].c].KeyAlt
           /\ Contexts[trace[e].c].MousePos = <<100, 200>>
           /\ Contexts[trace[e].c].MouseDrawCursor

\* C20: when keys were set down and a wheel delta was added, a Tick consumed them,
\* ClearUpdateState cleared the update state and nothing was accumulated since, the
\* next Tick that consumes the input state leaves those keys down in the IO of the
\* context and the mouse wheel of the IO at 0.
C20_KeysPersistWheelDoesNot ==
    \A n \in InputStates :
        (op.name = "Tick" /\ Inputs[n].run.ph = 3) =>
            \A e \in Consumed(n) :
                /\ \A k \in Inputs[n].run.keys : Contexts[trace[e].c].KeysDown[k]
                /\ Contexts[trace[e].c].MouseWheel = 0

\* The second Tick of such a run consumed input state 1, with key 1 down.
C20_Witness ==
    /\ op.name = "Tick" /\ Consumed(1) # {}
    /\ Inputs[1].run = [keys |-> {1}, ph |-> 3]
    /\ \A e \in Consumed(1) :
           Contexts[trace[e].c].KeysDown[1] /\ ~Contexts[trace[e].c].KeysDown[0]

\* The entries of the last operation of kind k made for proxy p.
EventsOf(k, p) == {i \in Events(k) : trace[i].p = p}

\* C26: a processed Tick makes the context current first, runs Draw's callbacks and
\* EndFrame (if a frame was started) before the snapshot, and starts the new frame
\* after it; the snapshot holds what the ended frame left in the context (not what
\* the new frame resets), and bHasActiveItem and MouseCursor of a proxy change only
\* in an operation that processed a Tick of the proxy.
C26_SnapshotBetweenFrames ==
    /\ [](\A p \in ProxyIds :
            (op.name = "Tick" /\ op.p = p /\ EventsOf("Snapshot", p) # {}) =>
                \A s \in EventsOf("Snapshot", p) :
                    /\ trace[1].k = "SetCurrent" /\ trace[1].p = p
                    /\ (EventsOf("EndFrame", p) # {}) = op.started
                    /\ \A i \in EventsOf("Draw", p) \cup EventsOf("Callback", p)
                              \cup EventsOf("Render", p) \cup EventsOf("Capture", p)
                              \cup EventsOf("EndFrame", p) : i < s
                    /\ \A i \in EventsOf("Callback", p), j \in EventsOf("Render", p) : i < j
                    /\ EventsOf("NewFrame", p) # {}
                    /\ \A i \in EventsOf("CopyInput", p) \cup EventsOf("NewFrame", p) : s < i)
    /\ [][\A p \in ProxyIds :
            /\ (op'.name = "Tick" /\ op'.p = p
                    /\ \E i \in 1..Len(trace') : trace'[i].k = "Snapshot" /\ trace'[i].p = p) =>
                   LET c == Proxies[p].Context
                       drawn == \E i \in 1..Len(trace') :
                                    trace'[i].k = "Callback" /\ trace'[i].x = "Widget"
                   IN  /\ Proxies'[p].MouseCursor =
                              IF drawn THEN "TextEditBeam"
                              ELSE ToSlateMouseCursor(Contexts[c].MouseCursor)
                       /\ Proxies'[p].bHasActiveItem = (drawn \/ Contexts[c].ActiveId)
            /\ (Proxies[p].state = "live" /\ Proxies'[p].state = "live"
                    /\ <<Proxies'[p].bHasActiveItem, Proxies'[p].MouseCursor>>
                           # <<Proxies[p].bHasActiveItem, Proxies[p].MouseCursor>>) =>
                   \E i \in 1..Len(trace') : trace'[i].k = "Snapshot" /\ trace'[i].p = p]_vars

\* A Tick whose Draw ran the text field callback captured the text cursor and the
\* active item, although the frame it started shows the arrow again.
C26_Witness ==
    /\ op.name = "Tick" /\ op.p = "A" /\ op.started
    /\ EventsOf("Snapshot", "A") # {}
    /\ \E i \in EventsOf("Callback", "A") : trace[i].x = "Widget"
    /\ Proxies["A"].MouseCursor = "TextEditBeam" /\ Proxies["A"].bHasActiveItem
    /\ Contexts[Proxies["A"].Context].MouseCursor = "Arrow"

\* C30: LastFrameNumber is 0 after construction and never above the frame counter;
\* a Tick is processed exactly when the counter is above LastFrameNumber, and then
\* LastFrameNumber is the counter before anything else runs, so that a Tick made by
\* one of its own callbacks is not processed again; a Tick that is not processed
\* changes nothing; LastFrameNumber changes only by a processed Tick, to the
\* counter, and never decreases.
C30_TickProcessedIffCounterAbove ==
    /\ [](\A p \in ProxyIds :
            Proxies[p].state = "live" => Proxies[p].LastFrameNumber <= GFrameNumber)
    /\ [][\A p \in ProxyIds :
            LET snapshots == {i \in 1..Len(trace') :
                                trace'[i].k = "Snapshot" /\ trace'[i].p = p}
            IN  /\ (op'.name = "Construct" /\ op'.p = p) => Proxies'[p].LastFrameNumber = 0
                /\ (op'.name = "Tick" /\ op'.p = p) =>
                       /\ (snapshots # {}) = (Proxies[p].LastFrameNumber < GFrameNumber)
                       /\ snapshots # {} =>
                              /\ Proxies'[p].LastFrameNumber = GFrameNumber
                              /\ Cardinality(snapshots) = 1
                       /\ snapshots = {} =>
                              trace' = <<>> /\ op'.kept /\ op'.libKept
                /\ (Proxies[p].state = "live" /\ Proxies'[p].state = "live"
                        /\ Proxies'[p].LastFrameNumber # Proxies[p].LastFrameNumber) =>
                       /\ Proxies'[p].LastFrameNumber = GFrameNumber'
                       /\ Proxies'[p].LastFrameNumber > Proxies[p].LastFrameNumber
                       /\ snapshots # {}]_vars

\* The second processed Tick of the proxy, at counter 2, ran a callback that called
\* Tick again.
C30_Witness ==
    /\ op.name = "Tick" /\ op.p = "A" /\ GFrameNumber = 2
    /\ Proxies["A"].LastFrameNumber = 2
    /\ Cardinality(EventsOf("Snapshot", "A")) = 1
    /\ \E i \in EventsOf("Callback", "A") : trace[i].x = "TickSelf"
    /\ \E i \in EventsOf("Capture", "A") : TRUE

\* C28: a proxy is never destroyed while its frame-started flag is true.
C28_NoDestroyInStartedFrame ==
    (op.name = "Destroy" /\ op.hadContext) => ~op.started

\* C29: between any two operations every live proxy has a started frame, and so has
\* every live proxy at the start of every draw callback; within a Tick the frame of
\* the proxy is ended only to be started again before the Tick returns.
C29_FrameAlwaysStarted ==
    /\ \A p \in ProxyIds : Proxies[p].state = "live" => Proxies[p].bIsFrameStarted
    /\ \A i \in Events("Callback") : trace[i].b
    /\ \A i \in Events("EndFrame") :
           \E j \in EventsOf("NewFrame", trace[i].p) : j > i

\* A manual Draw ran a callback that processed a Tick of the proxy, whose frame was
\* ended and started again, before the next callback ran.
C29_Witness ==
    /\ op.name = "Draw"
    /\ \E i \in Events("Callback"), j \in Events("EndFrame"), k \in Events("Callback") :
           /\ i < j /\ j < k
           /\ trace[i].x = "TickSelf" /\ trace[j].p = op.p /\ trace[k].p = op.p

\* C27: every draw callback that a proxy's Draw invokes starts with that proxy's
\* context as the current context, also after an earlier callback of the same Draw
\* made another proxy's context current.
C27_CallbacksStartOnOwnContext ==
    \A i \in Events("Callback") : trace[i].c = Proxies[trace[i].p].Context

\* C25: the input-mode and the show-demo toggles are independent booleans: after
\* SetInputMode(b) IsInputMode() is b, ToggleInputMode() negates IsInputMode() and
\* two ToggleInputMode() calls in a row restore it, likewise for SetShowDemo,
\* IsShowingDemo and ToggleShowDemo, and a call on one toggle leaves the console
\* variable of the other as it was.
C25_TogglesAreIndependentBooleans ==
    /\ toggled.name = "SetInputMode" =>
          IsInputMode = toggled.b /\ ShowDemo = toggled.ShowDemo
    /\ toggled.name = "ToggleInputMode" =>
          /\ IsInputMode = ~(toggled.InputEnabled > 0)
          /\ ShowDemo = toggled.ShowDemo
          /\ toggled.prev.name = "ToggleInputMode" =>
                IsInputMode = (toggled.prev.InputEnabled > 0)
    /\ toggled.name = "SetShowDemo" =>
          IsShowingDemo = toggled.b /\ InputEnabled = toggled.InputEnabled
    /\ toggled.name = "ToggleShowDemo" =>
          /\ IsShowingDemo = ~(toggled.ShowDemo > 0)
          /\ InputEnabled = toggled.InputEnabled
          /\ toggled.prev.name = "ToggleShowDemo" =>
                IsShowingDemo = (toggled.prev.ShowDemo > 0)

\* Two ToggleInputMode() calls in a row from the console value 2, with the demo
\* shown: the input mode is on again and the demo is still shown.
C25_Witness ==
    /\ toggled.name = "ToggleInputMode"
    /\ toggled.prev.name = "ToggleInputMode"
    /\ toggled.prev.InputEnabled = 2
    /\ IsInputMode
    /\ ShowDemo = 2

\* C23: UpdateInputMode(hasKeyboardFocus, hasMousePointer) leaves the mode at
\* MouseAndKeyboard with the focus, else at MousePointerOnly with the pointer, else
\* at None. A change to None clears keys, mouse buttons, modifiers and position; a
\* change from MouseAndKeyboard to MousePointerOnly clears keys and modifiers and
\* keeps mouse buttons and position; any other call keeps all of them.
C23_ResetOnlyOnDowngrade ==
    \A n \in InputStates :
        LET u == Widgets[n].upd
            is == Inputs[n]
        IN  (Widgets[n].state = "live" /\ u.called) =>
            LET NewInputMode == IF u.focus THEN "MouseAndKeyboard"
                                ELSE IF u.pointer THEN "MousePointerOnly"
                                ELSE "None"
                mods == <<is.bIsControlDown, is.bIsShiftDown, is.bIsAltDown>>
                NoKeys == (\A i \in KeyIndices : ~is.KeysDown[i])
                              /\ mods = <<FALSE, FALSE, FALSE>>
            IN  /\ Widgets[n].InputMode = NewInputMode
                /\ CASE u.from # NewInputMode /\ NewInputMode = "None" ->
                            /\ NoKeys
                            /\ \A i \in MouseIndices : ~is.MouseButtonsDown[i]
                            /\ is.MousePosition = <<0, 0>>
                     [] u.from = "MouseAndKeyboard"
                            /\ NewInputMode = "MousePointerOnly" ->
                            /\ NoKeys
                            /\ is.MouseButtonsDown = u.MouseButtonsDown
                            /\ is.MousePosition = u.MousePosition
                     [] OTHER ->
                            /\ is.KeysDown = u.KeysDown
                            /\ mods = u.mods
                            /\ is.MouseButtonsDown = u.MouseButtonsDown
                            /\ is.MousePosition = u.MousePosition

\* The widget lost the keyboard focus over a hovered widget with a key and a mouse
\* button down and the mouse away from the origin: the key is up, the button is
\* still down and the position is kept.
C23_Witness ==
    LET u == Widgets[1].upd
    IN  /\ Widgets[1].state = "live" /\ u.called
        /\ u.from = "MouseAndKeyboard" /\ Widgets[1].InputMode = "MousePointerOnly"
        /\ u.KeysDown[0] /\ u.MouseButtonsDown[0] /\ u.MousePosition = <<100, 200>>
        /\ ~Inputs[1].KeysDown[0]
        /\ Inputs[1].MouseButtonsDown[0]
        /\ Inputs[1].MousePosition = <<100, 200>>

\* C21: the per-frame deltas of a widget's input state are cleared at the
\* post-update of every frame, whatever the widget's input mode, so that no
\* accumulated mouse wheel delta is consumed by the proxy in two frames.
C21_WheelDeltaConsumedInOneFrame ==
    \A n \in InputStates :
        /\ Widgets[n].wheelFrames <= 1
        /\ (op.name = "Frame" /\ Widgets[n].state = "live") =>
              /\ Inputs[n].MouseWheelDelta = 0
              /\ IsEmpty(Inputs[n].KeysUpdateRange)
              /\ IsEmpty(Inputs[n].MouseButtonsUpdateRange)

\* C22: a lookup of the proxy by a scope index that has no proxy is answered with
\* "no proxy", and no call site of the lookup (widget construction and
\* destruction, paint, cursor query, key filtering, delegate removal) fails on it.
C22_AbsentProxyIsSkipped ==
    \A n \in InputStates :
        Widgets[n].lookup # "fatal" /\ Widgets[n].state # "failed"

\* C24: no two scopes of the registry have the same index, a scope keeps its index
\* while it lives, an index goes to another scope only when the slot is empty (the
\* proxy that was there has been destroyed), and the index of a delegate handle
\* designates the proxy the delegate was registered on as long as that proxy lives.
C24_IndexDesignatesOneScope ==
    /\ [](/\ \A s, t \in Scopes :
               (s # t /\ Registry.index[s] # "-") => Registry.index[s] # Registry.index[t]
          /\ \A s \in Scopes : Registry.index[s] # "-" => Live(Registry.index[s])
          /\ \A h \in Handles :
               LET o == Registry.on[h.Handle]
               IN  (h.Category = "Default"
                      /\ \E p \in ProxyIds : Live(p) /\ Proxies[p].Context = o.Context) =>
                   /\ Proxies[h.Index].Context = o.Context
                   /\ Registry.index[o.scope] = h.Index)
    /\ [][\A s \in Scopes :
            /\ (Registry.index[s] # "-" /\ Registry'.index[s] # "-") =>
                  Registry'.index[s] = Registry.index[s]
            /\ (Registry.index[s] = "-" /\ Registry'.index[s] # "-") =>
                  Proxies[Registry'.index[s]].state = "absent"]_vars

\* The first index has gone from one world to another: a client still holds a
\* handle registered on the destroyed proxy of W1, and another client holds a
\* handle with the same index registered on the proxy of W2, while W3 has the
\* second index.
C24_Witness ==
    /\ Registry.index["W1"] = "-"
    /\ Registry.index["W2"] = "A"
    /\ Registry.index["W3"] = "B"
    /\ \E h1, h2 \in Handles :
          /\ h1.Index = "A" /\ Registry.on[h1.Handle].scope = "W1"
          /\ h2.Index = "A" /\ Registry.on[h2.Handle].scope = "W2"
          /\ Proxies["A"].Context = Registry.on[h2.Handle].Context

\* C31: a Draw() called from outside Tick, whose callbacks do not Tick the proxy,
\* sets the draw-called flag of a started frame and leaves the captured draw lists,
\* the frame-started flag, LastFrameNumber, the bound input state and the captured
\* active-item flag and mouse cursor as they were.
C31_ManualDrawKeepsFrameState ==
    [][(op'.name = "Draw" /\ op'.p = "A"
          /\ \A i \in 1..Len(trace') : trace'[i].k \in {"Draw", "Callback", "SetCurrent"}) =>
        LET a == Proxies["A"]
            b == Proxies'["A"]
        IN  /\ b.bIsDrawCalled = (a.bIsDrawCalled \/ a.bIsFrameStarted)
            /\ b.DrawLists = a.DrawLists
            /\ b.bIsFrameStarted = a.bIsFrameStarted
            /\ b.LastFrameNumber = a.LastFrameNumber
            /\ b.InputState = a.InputState
            /\ b.bHasActiveItem = a.bHasActiveItem
            /\ b.MouseCursor = a.MouseCursor]_vars

\* A manual Draw of a started frame has invoked the text field callback, on a proxy
\* with an input state, captured draw lists and a captured active item.
C31_Witness ==
    /\ op.name = "Draw" /\ op.p = "A" /\ op.started /\ ~op.drawCalled
    /\ \E i \in EventsOf("Callback", "A") : trace[i].x = "Widget"
    /\ \A i \in 1..Len(trace) : trace[i].k \in {"Draw", "Callback", "SetCurrent"}
    /\ Proxies["A"].bIsDrawCalled /\ Proxies["A"].bIsFrameStarted
    /\ Proxies["A"].InputState = 1
    /\ Proxies["A"].DrawLists # <<>>
    /\ Proxies["A"].bHasActiveItem
    /\ Proxies["A"].LastFrameNumber > 0

\* C32: a proxy is bound to at most one input state. Constructing a widget on a
\* proxy replaces whatever was bound by the widget's input state; destroying widget n
\* clears the binding exactly when it is n's and leaves any other binding; and the
\* binding of a proxy is always none or the input state of a live widget of that proxy.
C32_BoundInputStateIsOfLiveWidget ==
    [][/\ \A p \in ProxyIds :
            Proxies'[p].state = "live" =>
                \/ Proxies'[p].InputState = NoInputState
                \/ /\ Proxies'[p].InputState \in InputStates
                   /\ Widgets'[Proxies'[p].InputState].state = "live"
                   /\ Widgets'[Proxies'[p].InputState].ContextIndex = p
       /\ \A n \in InputStates :
            /\ (Widgets[n].state = "absent" /\ Widgets'[n].state = "live") =>
                   Proxies'[Widgets'[n].ContextIndex].InputState = n
            /\ (Widgets[n].state = "live" /\ Widgets'[n].state = "absent"
                  /\ Proxies[Widgets[n].ContextIndex].state = "live") =>
                   Proxies'[Widgets[n].ContextIndex].InputState =
                       IF Proxies[Widgets[n].ContextIndex].InputState = n
                       THEN NoInputState
                       ELSE Proxies[Widgets[n].ContextIndex].InputState]_vars

\* The second widget replaced the binding of the first on the proxy and was then
\* destroyed, which cleared the binding while the first widget lives on.
C32_Witness ==
    /\ Proxies["A"].state = "live"
    /\ Proxies["A"].InputState = NoInputState
    /\ Widgets[1].state = "live" /\ Widgets[1].ContextIndex = "A"
    /\ Widgets[2].state = "absent" /\ Widgets[2].lookup = "found"
    /\ "OnDebugDraw1" \in Range(Proxies["A"].DrawEvent)

\* C33: a destroyed widget is registered neither on the draw event of a proxy nor on
\* the post-update event, and no draw event invokes the callback of a widget that was
\* not alive; destroying a widget leaves the callbacks of the other listeners of the
\* draw event and the post-update registration of the other widget in place.
C33_DestroyedWidgetHasNoCallbacks ==
    [][\A n \in InputStates :
        /\ Widgets'[n].state = "absent" =>
              /\ ~Widgets'[n].postUpdate
              /\ \A p \in ProxyIds :
                    Proxies'[p].state = "live" =>
                        WidgetListener(n) \notin Range(Proxies'[p].DrawEvent)
        /\ \A i \in 1..Len(trace') :
              (trace'[i].k = "Callback" /\ trace'[i].x = WidgetListener(n)) =>
                  Widgets[n].state = "live"
        /\ (Widgets[n].state = "live" /\ Widgets'[n].state = "absent") =>
              /\ \A k \in InputStates \ {n} : Widgets'[k].postUpdate = Widgets[k].postUpdate
              /\ \A p \in ProxyIds : \A l \in Range(Proxies[p].DrawEvent) \ {WidgetListener(n)} :
                    l \in Range(Proxies'[p].DrawEvent)]_vars

\* A widget was destroyed on a proxy whose draw event still holds the callback of the
\* other widget and a listener of the module; the other widget stays registered on the
\* post-update event.
C33_Witness ==
    /\ Widgets[1].state = "absent" /\ Widgets[1].lookup = "found"
    /\ Widgets[2].state = "live" /\ Widgets[2].postUpdate
    /\ Proxies["A"].state = "live"
    /\ "OnDebugDraw2" \in Range(Proxies["A"].DrawEvent)
    /\ "Flag" \in Range(Proxies["A"].DrawEvent)
    /\ "OnDebugDraw1" \notin Range(Proxies["A"].DrawEvent)

\* C34: a Tick of the widget that finds the input toggle off while the widget's
\* cached value is on ends with the input mode None and with no key, no mouse button
\* and no modifier down in the input state; a Tick that finds the toggle equal to the
\* cached value makes no UpdateInputMode call on that account, and changes nothing
\* when its other steps make no such call either.
C34_DisabledTickResetsInput ==
    [][\A n \in InputStates :
        (op'.name = "WidgetTick" /\ Widgets'[n].tick.ran
           /\ (Widgets'[n] # Widgets[n] \/ Inputs'[n] # Inputs[n])) =>
            /\ (Widgets[n].bInputEnabled /\ InputEnabled <= 0) =>
                  /\ Widgets'[n].InputMode = "None"
                  /\ ~Widgets'[n].bInputEnabled
                  /\ \A i \in KeyIndices : ~Inputs'[n].KeysDown[i]
                  /\ \A i \in MouseIndices : ~Inputs'[n].MouseButtonsDown[i]
                  /\ ~Inputs'[n].bIsControlDown
                  /\ ~Inputs'[n].bIsShiftDown
                  /\ ~Inputs'[n].bIsAltDown
            /\ (Widgets[n].bInputEnabled = (InputEnabled > 0)) =>
                  /\ ~Widgets'[n].tick.disabled
                  /\ (~Widgets'[n].tick.mouse /\ ~Widgets'[n].tick.grabbed
                        /\ ~Widgets'[n].tick.background) =>
                        /\ Inputs'[n] = Inputs[n]
                        /\ Widgets'[n].InputMode = Widgets[n].InputMode]_vars

\* C35: a Tick of a widget in mode MousePointerOnly that got no mouse move since its
\* previous Tick calls UpdateInputMode without keyboard focus; when the widget is not
\* directly hovered UpdateMouseStatus leaves the mode None, the Tick ends outside
\* MousePointerOnly (in None unless it took the keyboard focus) and with no key, button
\* or modifier down; when it is hovered, or when a mouse move was notified,
\* UpdateMouseStatus keeps MousePointerOnly. The notification is cleared either way.
C35_MouseStatusDropsLostPointer ==
    [][\A n \in InputStates :
        (op'.name = "WidgetTick" /\ Widgets'[n].tick.ran
           /\ (Widgets'[n] # Widgets[n] \/ Inputs'[n] # Inputs[n])
           /\ Widgets[n].InputMode = "MousePointerOnly") =>
            /\ ~Widgets'[n].bReceivedMouseEvent
            /\ Widgets'[n].tick.mouse = ~Widgets[n].bReceivedMouseEvent
            /\ IF ~Widgets[n].bReceivedMouseEvent /\ ~Widgets'[n].tick.hovered
               THEN /\ Widgets'[n].tick.afterMouse = "None"
                    /\ Widgets'[n].InputMode # "MousePointerOnly"
                    /\ ~Widgets'[n].tick.grabbed => Widgets'[n].InputMode = "None"
                    /\ \A i \in KeyIndices : ~Inputs'[n].KeysDown[i]
                    /\ \A i \in MouseIndices : ~Inputs'[n].MouseButtonsDown[i]
                    /\ ~Inputs'[n].bIsControlDown
                    /\ ~Inputs'[n].bIsShiftDown
                    /\ ~Inputs'[n].bIsAltDown
                    /\ Inputs'[n].MousePosition = <<0, 0>>
               ELSE Widgets'[n].tick.afterMouse = "MousePointerOnly"]_vars

\* A widget in mode MousePointerOnly with a button and a modifier down, without a
\* mouse move since, was ticked while not hovered: the mode is None and the input
\* state is reset.
C35_Witness ==
    /\ op.name = "WidgetTick"
    /\ Widgets[1].tick.ran /\ Widgets[1].tick.mouse /\ ~Widgets[1].tick.hovered
    /\ ~Widgets[1].tick.disabled /\ ~Widgets[1].tick.grabbed
    /\ Widgets[1].tick.afterMouse = "None"
    /\ Widgets[1].InputMode = "None"
    /\ Widgets[1].upd.called /\ Widgets[1].upd.from = "MousePointerOnly"
    /\ Widgets[1].upd.MouseButtonsDown[0]
    /\ Widgets[1].upd.mods[1]
    /\ ~Inputs[1].MouseButtonsDown[0] /\ ~Inputs[1].bIsControlDown

\* C36: a key-down event leaves the input state as it was and is answered Unhandled
\* when the console is open, when the key is Tilde, or when the key is Escape and the
\* proxy is absent or has no active item; every other key-down sets the key down. A
\* key-up event always leaves the key not down, with the console open as well, so a
\* key that was down is up after its key-up event.
C36_KeyUpAlwaysRecorded ==
    [][\A n \in InputStates :
        (op'.name = "Widget" /\ Widgets'[n].key.kind # "-"
           /\ (Widgets'[n] # Widgets[n] \/ Inputs'[n] # Inputs[n])) =>
            LET e == Widgets'[n].key
                ContextProxy == IF Proxies[Widgets[n].ContextIndex].state = "live"
                                THEN Widgets[n].ContextIndex ELSE "-"
                bFiltered ==
                    \/ e.console
                    \/ e.Key = "Tilde"
                    \/ /\ e.Key = "Escape"
                       /\ (ContextProxy = "-" \/ ~Proxies[ContextProxy].bHasActiveItem)
            IN  IF e.kind = "down"
                THEN IF bFiltered
                     THEN Inputs'[n] = Inputs[n] /\ e.reply = "Unhandled"
                     ELSE Inputs'[n].KeysDown[e.i] /\ e.reply = "Handled"
                ELSE /\ ~Inputs'[n].KeysDown[e.i]
                     /\ \A k \in KeyIndices \ {e.i} :
                           Inputs'[n].KeysDown[k] = Inputs[n].KeysDown[k]
                     /\ e.reply = (IF e.console THEN "Unhandled" ELSE "Handled")]_vars

\* A key that was recorded down got its key-up event while the console was open: it
\* is up and the event went on to the console.
C36_Witness ==
    /\ op.name = "Widget"
    /\ Widgets[1].key.kind = "up" /\ Widgets[1].key.i = 0
    /\ Widgets[1].key.was /\ Widgets[1].key.console
    /\ Widgets[1].key.reply = "Unhandled"
    /\ ~Inputs[1].KeysDown[0]

\* C37: every index a mouse button handler passes to SetMouseDown lies in 0..4: Left
\* is 0, Right 1, Middle 2, Thumb 3, Thumb2 4, and the event of no other button
\* reaches the input state with an index outside the button array.
C37_MouseIndexInRange ==
    [][\A n \in InputStates :
        (op'.name = "Widget" /\ Widgets'[n].button.MouseButton # "-"
           /\ (Widgets'[n] # Widgets[n] \/ Inputs'[n] # Inputs[n])) =>
            LET e == Widgets'[n].button
            IN  /\ e.Index \in 0..4
                /\ e.MouseButton = "Left" => e.Index = 0
                /\ e.MouseButton = "Right" => e.Index = 1
                /\ e.MouseButton = "Middle" => e.Index = 2
                /\ e.MouseButton = "Thumb" => e.Index = 3
                /\ e.MouseButton = "Thumb2" => e.Index = 4]_vars

\* C38: GetKeyIndex gives the key code of a key that has one, else the character code
\* of a key that has one, and for a key with neither it fails fatally: no index is
\* returned and the handler that asked does not go on to the input state.
C38_UnmappedKeyIsFatal ==
    [][\A n \in InputStates :
        (op'.name = "Widget" /\ Widgets'[n].index.Key # "-"
           /\ (Widgets'[n] # Widgets[n] \/ Inputs'[n] # Inputs[n])) =>
            LET e == Widgets'[n].index
            IN  IF e.codes.pKeyCode
                THEN ~e.fatal /\ e.Index = e.codes.KeyCode
                ELSE IF e.codes.pCharCode
                THEN ~e.fatal /\ e.Index = e.codes.CharCode
                ELSE /\ e.fatal
                     /\ Widgets'[n].state = "failed"
                     /\ Inputs'[n] = Inputs[n]]_vars

====
